---- MODULE Spec2Model ----
(***************************************************************************)
(* Group swipe-matching engine of the movie recommendation application:    *)
(* the swipe_like / swipe_dislike request handlers, the consensus check,   *)
(* the round-completion detector, the deck service with its cache, and the *)
(* chat / match websocket consumers.                                       *)
(*                                                                         *)
(* The swipes, matches and rounds of one PRIVATE group are modelled, and   *)
(* beside them the create / join requests with the GroupSession and        *)
(* GroupMember rows they store.  The interaction store is a PostgreSQL     *)
(* database at READ COMMITTED: a statement reads the committed rows plus   *)
(* the rows its own transaction has written; an INSERT or UPDATE that      *)
(* meets an uncommitted write to the same unique key waits for it.         *)
(* Every request handler runs in its own worker, one database statement    *)
(* (or cache / channel-layer call) per step.                               *)
(***************************************************************************)
EXTENDS Integers, FiniteSets, Sequences, Bags, TLC

\* ------------------------------------------------------------------ bounds
NumUsers == 3          \* users 1..NumUsers; user 1 created the group
NumMovies == 6         \* catalog movie ids 1..NumMovies
NumContested == 1      \* movies the concurrent workers swipe on
NumWorkers == 2        \* request workers running concurrently
MaxRounds == 1         \* clearSwipes calls in one behaviour
MaxRequests == 4       \* requests started in one behaviour of the race specification
MaxFinishedEvents == 2 \* all_members_finished events after which a round takes no new request
MaxLimit == 2          \* largest limit parameter of a deck request
NumRoundUsers == 2     \* users who take part in the rounds of the round specification
MaxGroups == 2         \* GroupSession rows created in one behaviour
NumCodes == 2          \* group codes generate_unique_code can draw
NumGroupUsers == 2     \* users who send create / join requests
MaxGroupRequests == 4  \* create / join requests started in one behaviour
MaxFrames == 3          \* frames sent to or queued for a connection before its client stops sending
NumConns == 2          \* websocket connection slots
MaxText == 2            \* longest message text of a chat frame
NumCommunityMovies == 2 \* movies the members of the COMMUNITY group swipe on
NumSoloConns == 1      \* connections opened in a behaviour that also records swipes

\* -------------------------------------------------------- program constants
MOVIES_PER_ROUND == 5
CLOSE_UNAUTHENTICATED == 4001
CLOSE_NOT_MEMBER == 4003
HTTP_200_OK == 200
HTTP_201_CREATED == 201
HTTP_400_BAD_REQUEST == 400
HTTP_403_FORBIDDEN == 403
HTTP_404_NOT_FOUND == 404
HTTP_500_INTERNAL_SERVER_ERROR == 500

Users == 1..NumUsers
Movies == 1..NumMovies
Contested == 1..NumContested
Workers == 1..NumWorkers
Creator == 1
NoMovie == 0           \* a request body without tmdb_id
Conns == 1..NumConns
CommunityMovies == 1..NumCommunityMovies
SoloConns == 1..NumSoloConns
Chars == {"a", " "}    \* a letter and a blank
Texts == UNION {[1..n -> Chars] : n \in 0..MaxText}
NoUser == 0            \* a handshake scope without a user id
RoomKinds == {"chat", "match"}

\* room_group_name: the rooms of the group whose swipes are followed carry the name
\* of their kind, and a second group has a chat and a match room of its own.
OtherRooms == {"chat_other", "match_other"}
CommunityRoom == "match_community"
RoomNames == RoomKinds \cup OtherRooms \cup {CommunityRoom}
OtherRoom(kind) == IF kind = "chat" THEN "chat_other" ELSE "match_other"

\* The users with an active GroupMember row in the second group.
OtherMembers == {2, 3}
CommunityMembers == {1, 2}
Codes == 1..NumCodes
GroupUsers == 1..NumGroupUsers
NoCode == 0            \* a request that names no group code
NoGroup == 0           \* an instance whose primary key is None
NoRow == 0             \* no GroupMember instance read
NoMessage == 0         \* message_id None: save_message stored no row
CREATOR == "CREATOR"
MEMBER == "MEMBER"

LIKE == "LIKE"
DISLIKE == "DISLIKE"
NONE == "NONE"         \* no row
Actions == {LIKE, DISLIKE}

\* movie_info as get_movie_details returns it: the details, or None.
NoInfo == "none"
MovieInfos == {"details", NoInfo}

VARIABLES
    member,        \* GroupMember rows of the group: user -> NONE | ACTIVE | INACTIVE
    swipe,         \* committed GroupSwipe rows: <<user, movie>> -> NONE | LIKE | DISLIKE
    match,         \* committed GroupMatch rows: set of movie ids
    matchedAt,     \* matched_at of the committed GroupMatch rows: movie -> time, 0 without a row
    deckCache,     \* cache entry group_deck_<id>: <<>> when absent, else the cached list
    pubMatch,      \* match_found events sent to the match room, per movie
    pubFinished,   \* all_members_finished events sent to the match room this round
    round,         \* number of clearSwipes calls so far
    nreq,          \* requests started so far
    proc,          \* one record per request worker
    resp,          \* the response returned last, until the next request arrives
    conn,          \* one record per websocket connection
    room,          \* channel-layer groups: room kind -> set of connections
    inbox,         \* channel-layer events queued for each connection's consumer
    out,           \* frames sent to each connection's client: a bag of frames
    chatLog,       \* number of stored GroupChatMessage rows
    session,       \* committed GroupSession rows: a set of records
    gmember,       \* committed GroupMember rows of those sessions: a set of records
    gproc,         \* one record per worker of a create / join request
    gresp,         \* the response a create / join request returned last
    greq,          \* create / join requests started so far
    statusResp,    \* the response check_completion_status returned last
    tmdbUp,        \* whether the TMDB API answers the requests sent to it
    detailsCache,  \* cache entries movie_details_<id>: the movies that have one
    interaction,   \* Interaction rows: (user, movie) -> LIKE / DISLIKE / NONE
    communityDeck  \* cache entry group_deck_<id> of the COMMUNITY group

vars == <<member, swipe, match, matchedAt, deckCache, pubMatch, pubFinished, round, nreq, proc,
          resp, conn, room, inbox, out, chatLog, session, gmember, gproc, gresp, greq,
          statusResp, tmdbUp, detailsCache, interaction, communityDeck>>

groupVars == <<session, gmember, gproc, gresp, greq>>

catalogVars == <<tmdbUp, detailsCache>>

communityVars == <<interaction, communityDeck>>

dbVars == <<member, swipe, match, matchedAt>>

connVars == <<conn, room, inbox, out, chatLog>>

httpVars == <<dbVars, deckCache, pubMatch, pubFinished, round, nreq, proc, resp>>

swipeVars == <<httpVars, connVars, statusResp, catalogVars, communityVars>>

\* ------------------------------------------------------------------ helpers
Min(a, b) == IF a < b THEN a ELSE b

Take(s, n) == SubSeq(s, 1, Min(n, Len(s)))

RECURSIVE FilterOut(_, _)
FilterOut(s, drop) ==
    IF s = <<>> THEN <<>>
    ELSE IF Head(s) \in drop THEN FilterOut(Tail(s), drop)
         ELSE <<Head(s)>> \o FilterOut(Tail(s), drop)

ActiveMembers == {u \in Users : member[u] = "ACTIVE"}

IdleProc ==
    [pc |-> "idle", kind |-> "none", user |-> 0, movie |-> 0, action |-> NONE,
     existing |-> NONE, stale |-> FALSE, wrote |-> FALSE, nActive |-> 0,
     isMatch |-> FALSE, wmatch |-> FALSE, stamp |-> 0, status |-> 0, msg |-> "",
     limit |-> 0, deck |-> <<>>, info |-> NoInfo]

NoResponse ==
    [kind |-> "none", user |-> 0, status |-> 0, msg |-> "", isMatch |-> FALSE,
     deck |-> <<>>]

\* Worker p's handler returns: the worker is free again and resp holds the response.
Return(p, status, msg, isMatch, deck) ==
    /\ proc' = [proc EXCEPT ![p] = IdleProc]
    /\ resp' = [kind |-> proc[p].kind, user |-> proc[p].user, status |-> status,
                msg |-> msg, isMatch |-> isMatch, deck |-> deck]

\* Worker p goes on to step pc with the listed locals changed.
Goto(p, next) ==
    /\ proc' = [proc EXCEPT ![p] = next]
    /\ UNCHANGED resp

Free(p) == proc[p].pc = "idle"

InTxn(p) ==
    proc[p].pc \in {"countMembers", "countLikes", "getOrCreate", "details", "publish",
                    "invalidate", "commit"}

\* Another open transaction holds an uncommitted write of the GroupSwipe key.
SwipeKeyLocked(p, u, m) ==
    \E q \in Workers \ {p} :
        InTxn(q) /\ proc[q].wrote /\ proc[q].user = u /\ proc[q].movie = m

\* Another open transaction holds an uncommitted insert of the GroupMatch key.
MatchKeyLocked(p, m) ==
    \E q \in Workers \ {p} : InTxn(q) /\ proc[q].wmatch /\ proc[q].movie = m

\* The GroupSwipe action of (u, m) as a statement of worker p's transaction sees it.
Visible(p, u, m) ==
    IF proc[p].wrote /\ proc[p].user = u /\ proc[p].movie = m
    THEN proc[p].action
    ELSE swipe[<<u, m>>]

\* A connection slot before its handshake arrives.
NoConn ==
    [state |-> "none", kind |-> "none", room |-> "none", user |-> NoUser,
     auth |-> "none", code |-> 0,
     checked |-> FALSE, activeAtCheck |-> FALSE, accepted |-> FALSE, got |-> FALSE]

\* An event of the channel layer and a frame on the wire.  A frame built without
\* a type key has type NoType.
Event(type, movie, user) ==
    [type |-> type, movie |-> movie, user |-> user, info |-> NoInfo,
     message_id |-> NoMessage]

\* The chat_message event of handle_chat_message for the id save_message returned.
ChatEvent(user, id) == [Event("chat_message", NoMovie, user) EXCEPT !.message_id = id]

\* The match_found event of _broadcast_match_event for a movie and its movie_info.
MatchEvent(movie, info) == [Event("match_found", movie, NoUser) EXCEPT !.info = info]

Frame(type, payload, movie) ==
    [type |-> type, payload |-> payload, movie |-> movie, info |-> NoInfo,
     message_id |-> NoMessage]

\* ChatConsumer.chat_message: the frame repeats the event's message_id.
ChatMessageFrame(id) ==
    [Frame("chat_message", "chat_message", NoMovie) EXCEPT !.message_id = id]

\* MatchConsumer.match_found: the frame repeats the event's movie fields.
MatchFoundFrame(movie, info) ==
    [Frame("match_found", "match_found", movie) EXCEPT !.info = info]

NoType == "none"

\* Mutant: group_send reaches every channel that is in a group, whatever its name.
Deliver_Everywhere(name, ev) ==
    [c \in Conns |-> IF \E n \in RoomNames : c \in room[n] THEN Append(inbox[c], ev)
                     ELSE inbox[c]]

\* channel_layer.group_send: the event is queued for every channel in the room's
\* group.
Deliver(name, ev) == [c \in Conns |-> IF c \in room[name] THEN Append(inbox[c], ev)
                                      ELSE inbox[c]]

\* A worker of the create / join requests between requests, and the response slot
\* before the first of them returns.
IdleGroupProc ==
    [pc |-> "idle", kind |-> "none", user |-> NoUser, code |-> NoCode, group |-> NoGroup,
     row |-> NoRow, req |-> 0]

NoGroupResponse == [kind |-> "none", user |-> NoUser, code |-> NoCode, status |-> 0,
                    msg |-> "", req |-> 0]

\* The response slot of check_completion_status before its first call.
NoStatus ==
    [status |-> 0, all_finished |-> FALSE, total_members |-> 0, finished_members |-> 0,
     common_matches_count |-> 0]

Init ==
    /\ member = [u \in Users |-> IF u = Creator THEN "ACTIVE" ELSE "NONE"]
    /\ swipe = [k \in Users \X Movies |-> NONE]
    /\ match = {}
    /\ matchedAt = [m \in Movies |-> 0]
    /\ deckCache = <<>>
    /\ pubMatch = [m \in Movies |-> 0]
    /\ pubFinished = 0
    /\ round = 0
    /\ nreq = 0
    /\ proc = [p \in Workers |-> IdleProc]
    /\ resp = NoResponse
    /\ conn = [c \in Conns |-> NoConn]
    /\ room = [k \in RoomNames |-> {}]
    /\ inbox = [c \in Conns |-> <<>>]
    /\ out = [c \in Conns |-> EmptyBag]
    /\ chatLog = 0
    /\ session = {}
    /\ gmember = {}
    /\ gproc = [p \in Workers |-> IdleGroupProc]
    /\ gresp = NoGroupResponse
    /\ greq = 0
    /\ statusResp = NoStatus
    /\ tmdbUp = TRUE
    /\ detailsCache = {}
    /\ interaction = [k \in Users \X Movies |-> NONE]
    /\ communityDeck = <<>>


\* ------------------------------------------------- consensus engine (reads)
\* Mutant: the membership query without its is_active filter.
IsMember_AnyRow(u) == member[u] # "NONE"

\* GroupMember.objects.filter(group_session, user, is_active=True).exists()
IsMember(u) == member[u] = "ACTIVE"

\* like_count of check_group_match: every LIKE row of the movie in the group.
LikeCount(p, m) == Cardinality({u \in Users : Visible(p, u, m) = LIKE})

\* Mutant: the comparison without its guard on the member count.
CheckGroupMatch_NoGuard(activeMemberCount, likeCount) == likeCount >= activeMemberCount

CheckGroupMatch(activeMemberCount, likeCount) ==
    likeCount >= activeMemberCount /\ activeMemberCount > 0

\* Mutant: only the LIKE rows of a member count toward the quota.
SwipeCount_LikesOnly(u) == Cardinality({m \in Movies : swipe[<<u, m>>] = LIKE})

\* GroupSwipe.objects.filter(group_session, user).count()
SwipeCount(u) == Cardinality({m \in Movies : swipe[<<u, m>>] # NONE})

\* Mutant: a member counts as finished only at exactly the quota.
FinishedMembers_ExactQuota ==
    Cardinality({u \in ActiveMembers : SwipeCount(u) = MOVIES_PER_ROUND})

FinishedMembers == Cardinality({u \in ActiveMembers : SwipeCount(u) >= MOVIES_PER_ROUND})

\* Mutant: the members who finished are counted among all rows of the group.
CheckAllMembersFinished_AnyRow ==
    LET total == Cardinality(ActiveMembers)
        finished == Cardinality({u \in Users : member[u] # "NONE"
                                                /\ SwipeCount(u) >= MOVIES_PER_ROUND}) IN
    IF total = 0
    THEN [all_finished |-> FALSE, total_members |-> 0, finished_members |-> 0,
          total_movies |-> MOVIES_PER_ROUND]
    ELSE [all_finished |-> (finished = total) /\ total > 0,
          total_members |-> total, finished_members |-> finished,
          total_movies |-> MOVIES_PER_ROUND]

CheckAllMembersFinished ==
    LET total == Cardinality(ActiveMembers) IN
    IF total = 0
    THEN [all_finished |-> FALSE, total_members |-> 0, finished_members |-> 0,
          total_movies |-> MOVIES_PER_ROUND]
    ELSE [all_finished |-> (FinishedMembers = total) /\ total > 0,
          total_members |-> total, finished_members |-> FinishedMembers,
          total_movies |-> MOVIES_PER_ROUND]

\* Mutant: a request the TMDB API does not answer passes for an answered one.
GetMovieDetails_IgnoresOutage(m) == "details"

\* get_movie_details: the cached entry, else the answer of the TMDB API, else None.
GetMovieDetails(m) == IF m \in detailsCache \/ tmdbUp THEN "details" ELSE NoInfo

\* The movie_details_<id> entries after get_movie_details ran for the movies ms:
\* an answer of the API is cached.
CacheDetails(ms) == IF tmdbUp THEN detailsCache \cup ms ELSE detailsCache

\* common_movie_ids of get_all_common_matches: the movies whose LIKE rows number
\* the active members.
CommonMovieIds ==
    LET total == Cardinality(ActiveMembers) IN
    IF total = 0 THEN {}
    ELSE {m \in Movies : Cardinality({u \in Users : swipe[<<u, m>>] = LIKE}) = total}

\* get_all_common_matches: the common movies whose details could be had.
GetAllCommonMatches == {m \in CommonMovieIds : GetMovieDetails(m) # NoInfo}

\* ------------------------------------------- swipe_like / swipe_dislike steps
\* The request arrives: an authenticated user posts a movie id to the like or the
\* dislike endpoint of the group.
SwipeStart(p, u, m, a) ==
    /\ Free(p)
    /\ proc' = [proc EXCEPT ![p] =
                 [IdleProc EXCEPT !.pc = "auth", !.kind = "swipe", !.user = u,
                                  !.movie = m, !.action = a]]
    /\ resp' = NoResponse
    /\ UNCHANGED <<groupVars, communityVars, statusResp, catalogVars, dbVars, deckCache, pubMatch, pubFinished, round, connVars>>

\* is_member query, then the tmdb_id check.
SwipeAuth(p) ==
    /\ proc[p].pc = "auth" /\ proc[p].kind = "swipe"
    /\ IF ~IsMember(proc[p].user)
       THEN Return(p, HTTP_403_FORBIDDEN, "not a member", FALSE, <<>>)
       ELSE IF proc[p].movie = NoMovie
       THEN Return(p, HTTP_400_BAD_REQUEST, "tmdb_id required", FALSE, <<>>)
       ELSE Goto(p, [proc[p] EXCEPT !.pc = "read"])
    /\ UNCHANGED <<groupVars, communityVars, statusResp, catalogVars, dbVars, deckCache, pubMatch, pubFinished, round, nreq, connVars>>

\* existing_swipe = GroupSwipe.objects.filter(...).first(), before the transaction.
SwipeRead(p) ==
    /\ proc[p].pc = "read"
    /\ Goto(p, [proc[p] EXCEPT !.pc = "upsert",
                               !.existing = swipe[<<proc[p].user, proc[p].movie>>]])
    /\ UNCHANGED <<groupVars, communityVars, statusResp, catalogVars, dbVars, deckCache, pubMatch, pubFinished, round, nreq, connVars>>

\* The step after the swipe row is written: the like handler goes on to the match
\* check, the dislike handler straight to the cache eviction.
AfterUpsert(a) == IF a = LIKE THEN "countMembers" ELSE "invalidate"

\* Mutant: the early return for an unchanged action is missing.
AlreadySwiped_Never(existing, action) == FALSE

\* The stored row already holds the requested action.
AlreadySwiped(existing, action) == existing = action

\* Same action as the stored row: the handler returns early.
SwipeAlready(p) ==
    /\ proc[p].pc = "upsert"
    /\ AlreadySwiped(proc[p].existing, proc[p].action)
    /\ Return(p, HTTP_200_OK, "already", FALSE, <<>>)
    /\ UNCHANGED <<groupVars, communityVars, statusResp, catalogVars, dbVars, deckCache, pubMatch, pubFinished, round, nreq, connVars>>

\* existing_swipe.save(): UPDATE by primary key; when the row is gone the ORM
\* falls back to INSERT, which the unique key rejects if a new row took its place.
SwipeUpdate(p) ==
    LET u == proc[p].user
        m == proc[p].movie IN
    /\ proc[p].pc = "upsert"
    /\ proc[p].existing # NONE
    /\ ~AlreadySwiped(proc[p].existing, proc[p].action)
    /\ ~SwipeKeyLocked(p, u, m)
    /\ IF proc[p].stale /\ swipe[<<u, m>>] # NONE
       THEN Return(p, HTTP_500_INTERNAL_SERVER_ERROR, "integrity error", FALSE, <<>>)
       ELSE Goto(p, [proc[p] EXCEPT !.pc = AfterUpsert(proc[p].action), !.wrote = TRUE,
                                    !.msg = "updated", !.status = HTTP_200_OK])
    /\ UNCHANGED <<groupVars, communityVars, statusResp, catalogVars, dbVars, deckCache, pubMatch, pubFinished, round, nreq, connVars>>

\* GroupSwipe.objects.create(...): INSERT under the unique key (group, user, movie).
SwipeCreate(p) ==
    LET u == proc[p].user
        m == proc[p].movie IN
    /\ proc[p].pc = "upsert"
    /\ proc[p].existing = NONE
    /\ ~AlreadySwiped(proc[p].existing, proc[p].action)
    /\ ~SwipeKeyLocked(p, u, m)
    /\ IF swipe[<<u, m>>] # NONE
       THEN Return(p, HTTP_500_INTERNAL_SERVER_ERROR, "integrity error", FALSE, <<>>)
       ELSE Goto(p, [proc[p] EXCEPT !.pc = AfterUpsert(proc[p].action), !.wrote = TRUE,
                                    !.status = HTTP_201_CREATED])
    /\ UNCHANGED <<groupVars, communityVars, statusResp, catalogVars, dbVars, deckCache, pubMatch, pubFinished, round, nreq, connVars>>

\* check_group_match, first query: the number of active members.
SwipeCountMembers(p) ==
    /\ proc[p].pc = "countMembers"
    /\ Goto(p, [proc[p] EXCEPT !.pc = "countLikes",
                               !.nActive = Cardinality(ActiveMembers)])
    /\ UNCHANGED <<groupVars, communityVars, statusResp, catalogVars, dbVars, deckCache, pubMatch, pubFinished, round, nreq, connVars>>

\* check_group_match, second query and the comparison.
SwipeCountLikes(p) ==
    LET isMatch == CheckGroupMatch(proc[p].nActive, LikeCount(p, proc[p].movie)) IN
    /\ proc[p].pc = "countLikes"
    /\ Goto(p, [proc[p] EXCEPT !.pc = IF isMatch THEN "getOrCreate" ELSE "invalidate",
                               !.nActive = 0, !.isMatch = isMatch])
    /\ UNCHANGED <<groupVars, communityVars, statusResp, catalogVars, dbVars, deckCache, pubMatch, pubFinished, round, nreq, connVars>>

\* Mutant: the broadcast is not guarded by created.
MatchCreated_Always(m) == TRUE

\* created of GroupMatch.objects.get_or_create: the row is inserted only when no
\* committed row holds the key (an uncommitted one makes the INSERT wait).
MatchCreated(m) == m \notin match

\* auto_now_add of GroupMatch.matched_at: the time of the insert, counted in
\* requests received so far.
Now == nreq + 1

SwipeGetOrCreate(p) ==
    LET m == proc[p].movie
        created == MatchCreated(m) IN
    /\ proc[p].pc = "getOrCreate"
    /\ ~MatchKeyLocked(p, m)
    /\ Goto(p, [proc[p] EXCEPT !.pc = "details",
                               !.wmatch = created,
                               !.stamp = IF created THEN Now ELSE 0])
    /\ UNCHANGED <<groupVars, communityVars, statusResp, catalogVars, dbVars, deckCache, pubMatch,
                   pubFinished, round, nreq, connVars>>

\* movie_info = get_movie_details(tmdb_id) of the match branch, inside the
\* transaction; the broadcast follows when the row is new.
SwipeDetails(p) ==
    /\ proc[p].pc = "details"
    /\ detailsCache' = CacheDetails({proc[p].movie})
    /\ Goto(p, [proc[p] EXCEPT !.pc = IF proc[p].wmatch THEN "publish" ELSE "invalidate",
                               !.info = GetMovieDetails(proc[p].movie)])
    /\ UNCHANGED <<groupVars, communityVars, statusResp, tmdbUp, dbVars, deckCache, pubMatch, pubFinished,
                   round, nreq, connVars>>

\* _broadcast_match_event: group_send of match_found to the match room.
SwipePublish(p) ==
    /\ proc[p].pc = "publish"
    /\ pubMatch' = [pubMatch EXCEPT ![proc[p].movie] = @ + 1]
    /\ inbox' = Deliver("match", MatchEvent(proc[p].movie, proc[p].info))
    /\ Goto(p, [proc[p] EXCEPT !.pc = "invalidate"])
    /\ UNCHANGED <<groupVars, communityVars, statusResp, catalogVars, dbVars, deckCache, pubFinished, round, nreq, conn, room, out,
                   chatLog>>

\* invalidate_deck_cache, still inside the transaction.
SwipeInvalidate(p) ==
    /\ proc[p].pc = "invalidate"
    /\ deckCache' = <<>>
    /\ Goto(p, [proc[p] EXCEPT !.pc = "commit"])
    /\ UNCHANGED <<groupVars, communityVars, statusResp, catalogVars, dbVars, pubMatch, pubFinished, round, nreq, connVars>>

\* Mutant: a committed DISLIKE takes the movie's GroupMatch row away.
SwipeCommit_DislikeRetracts(p) ==
    LET u == proc[p].user
        m == proc[p].movie
        gone == proc[p].wrote /\ proc[p].action = DISLIKE IN
    /\ proc[p].pc = "commit"
    /\ swipe' = IF proc[p].wrote THEN [swipe EXCEPT ![<<u, m>>] = proc[p].action]
                ELSE swipe
    /\ match' = IF gone THEN match \ {m}
                ELSE IF proc[p].wmatch THEN match \cup {m} ELSE match
    /\ matchedAt' = IF gone THEN [matchedAt EXCEPT ![m] = 0]
                    ELSE IF proc[p].wmatch THEN [matchedAt EXCEPT ![m] = proc[p].stamp]
                    ELSE matchedAt
    /\ Goto(p, [proc[p] EXCEPT !.pc = "completion", !.wrote = FALSE, !.wmatch = FALSE,
                               !.stamp = 0])
    /\ UNCHANGED <<groupVars, communityVars, statusResp, catalogVars, member, deckCache, pubMatch, pubFinished, round, nreq, connVars>>

\* The atomic block exits: the swipe row and the match row become visible.
SwipeCommit(p) ==
    LET u == proc[p].user
        m == proc[p].movie IN
    /\ proc[p].pc = "commit"
    /\ swipe' = IF proc[p].wrote THEN [swipe EXCEPT ![<<u, m>>] = proc[p].action]
                ELSE swipe
    /\ match' = IF proc[p].wmatch THEN match \cup {m} ELSE match
    /\ matchedAt' = IF proc[p].wmatch THEN [matchedAt EXCEPT ![m] = proc[p].stamp]
                    ELSE matchedAt
    /\ Goto(p, [proc[p] EXCEPT !.pc = "completion", !.wrote = FALSE, !.wmatch = FALSE,
                               !.stamp = 0])
    /\ UNCHANGED <<groupVars, communityVars, statusResp, catalogVars, member, deckCache, pubMatch, pubFinished, round, nreq, connVars>>

\* check_all_members_finished and, when it says so, get_all_common_matches and
\* _broadcast_completion_event; then the response.
SwipeCompletion(p) ==
    /\ proc[p].pc = "completion"
    /\ pubFinished' = IF CheckAllMembersFinished.all_finished
                      THEN pubFinished + 1 ELSE pubFinished
    /\ inbox' = IF CheckAllMembersFinished.all_finished
                THEN Deliver("match", Event("all_members_finished", NoMovie, NoUser))
                ELSE inbox
    /\ detailsCache' = IF CheckAllMembersFinished.all_finished
                       THEN CacheDetails(CommonMovieIds) ELSE detailsCache
    /\ Return(p, proc[p].status, proc[p].msg, proc[p].isMatch, <<>>)
    /\ UNCHANGED <<groupVars, communityVars, statusResp, tmdbUp, dbVars, deckCache, pubMatch, round, nreq,
                   conn, room, out, chatLog>>

\* An exception leaves the atomic block after the match branch: cache.delete of
\* invalidate_deck_cache or the COMMIT raises.  The transaction is rolled back and
\* the view's except branch answers 500.
SwipeAbort(p) ==
    /\ proc[p].pc \in {"invalidate", "commit"}
    /\ proc[p].kind = "swipe"
    /\ Return(p, HTTP_500_INTERNAL_SERVER_ERROR, "server error", FALSE, <<>>)
    /\ UNCHANGED <<groupVars, communityVars, statusResp, catalogVars, dbVars, deckCache, pubMatch,
                   pubFinished, round, nreq, connVars>>

\* Mutant: a group_send that raises takes the request to the view's except
\* branch.
SwipePublishFails_Aborts(p) ==
    /\ proc[p].pc = "publish"
    /\ Return(p, HTTP_500_INTERNAL_SERVER_ERROR, "server error", FALSE, <<>>)
    /\ UNCHANGED <<groupVars, communityVars, statusResp, catalogVars, dbVars, deckCache, pubMatch,
                   pubFinished, round, nreq, connVars>>

\* _broadcast_match_event when the channel layer cannot be reached: group_send
\* raises, the helper's except branch prints the error, and the request goes on.
SwipePublishFails(p) ==
    /\ proc[p].pc = "publish"
    /\ Goto(p, [proc[p] EXCEPT !.pc = "invalidate"])
    /\ UNCHANGED <<groupVars, communityVars, statusResp, catalogVars, dbVars, deckCache, pubMatch,
                   pubFinished, round, nreq, connVars>>

\* The completion check when the channel layer cannot be reached and everyone has
\* finished: get_all_common_matches runs, _broadcast_completion_event swallows
\* the error of its group_send, and the response is returned.
SwipeCompletionFails(p) ==
    /\ proc[p].pc = "completion"
    /\ CheckAllMembersFinished.all_finished
    /\ detailsCache' = CacheDetails(CommonMovieIds)
    /\ Return(p, proc[p].status, proc[p].msg, proc[p].isMatch, <<>>)
    /\ UNCHANGED <<groupVars, communityVars, statusResp, tmdbUp, dbVars, deckCache, pubMatch,
                   pubFinished, round, nreq, connVars>>

SwipeStep(p) ==
    \/ SwipeAuth(p)
    \/ SwipeRead(p)
    \/ SwipeAlready(p)
    \/ SwipeUpdate(p)
    \/ SwipeCreate(p)
    \/ SwipeCountMembers(p)
    \/ SwipeCountLikes(p)
    \/ SwipeGetOrCreate(p)
    \/ SwipeDetails(p)
    \/ SwipePublish(p)
    \/ SwipeInvalidate(p)
    \/ SwipeCommit(p)
    \/ SwipeCompletion(p)

\* ------------------------------------------------------------- deck service
\* The candidate list the Catalog Gateway returns, best rated first.
Catalog(n) == IF tmdbUp THEN Take([i \in 1..NumMovies |-> i], n) ELSE <<>>

\* liked_movie_ids of _generate_group_recommendations, whose details are fetched
\* when the group has two active members or more.
LikedMovieIds ==
    IF Cardinality(ActiveMembers) < 2 THEN {}
    ELSE {m \in Movies : \E u \in Users : swipe[<<u, m>>] = LIKE}

\* swiped_ids of a PRIVATE group: every movie with a GroupSwipe row in the group.
SwipedIds == {m \in Movies : \E u \in Users : swipe[<<u, m>>] # NONE}

DeckStart(p, u, limit) ==
    /\ Free(p)
    /\ proc' = [proc EXCEPT ![p] =
                 [IdleProc EXCEPT !.pc = "auth", !.kind = "deck", !.user = u,
                                  !.limit = limit]]
    /\ resp' = NoResponse
    /\ UNCHANGED <<groupVars, communityVars, statusResp, catalogVars, dbVars, deckCache, pubMatch, pubFinished, round, connVars>>

DeckAuth(p) ==
    /\ proc[p].pc = "auth" /\ proc[p].kind = "deck"
    /\ IF ~IsMember(proc[p].user)
       THEN Return(p, HTTP_403_FORBIDDEN, "not a member", FALSE, <<>>)
       ELSE Goto(p, [proc[p] EXCEPT !.pc = "deckGet"])
    /\ UNCHANGED <<groupVars, communityVars, statusResp, catalogVars, dbVars, deckCache, pubMatch, pubFinished, round, nreq, connVars>>

\* cache.get: a non-empty cached list is returned, cut to the limit.
DeckCacheHit(p) ==
    /\ proc[p].pc = "deckGet"
    /\ deckCache # <<>>
    /\ Return(p, HTTP_200_OK, "cached", FALSE, Take(deckCache, proc[p].limit))
    /\ UNCHANGED <<groupVars, communityVars, statusResp, catalogVars, dbVars, deckCache, pubMatch, pubFinished, round, nreq, connVars>>

\* Cache miss: candidates from the catalog, minus the movies swiped in the group.
DeckCompute(p) ==
    /\ proc[p].pc = "deckGet"
    /\ deckCache = <<>>
    /\ Goto(p, [proc[p] EXCEPT !.pc = "deckSet",
                               !.deck = FilterOut(Catalog(2 * proc[p].limit), SwipedIds)])
    /\ detailsCache' = CacheDetails(LikedMovieIds)
    /\ UNCHANGED <<groupVars, communityVars, statusResp, tmdbUp, dbVars, deckCache, pubMatch, pubFinished, round, nreq, connVars>>

\* Mutant: the computed list is returned without being cached.
DeckSet_CachesNothing(p) ==
    /\ proc[p].pc = "deckSet"
    /\ deckCache' = deckCache
    /\ Return(p, HTTP_200_OK, "", FALSE, Take(proc[p].deck, proc[p].limit))
    /\ UNCHANGED <<groupVars, communityVars, statusResp, catalogVars, dbVars, pubMatch, pubFinished, round, nreq, connVars>>

\* cache.set of the filtered list, then the list cut to the limit is returned.
DeckSet(p) ==
    /\ proc[p].pc = "deckSet"
    /\ deckCache' = proc[p].deck
    /\ Return(p, HTTP_200_OK, "", FALSE, Take(proc[p].deck, proc[p].limit))
    /\ UNCHANGED <<groupVars, communityVars, statusResp, catalogVars, dbVars, pubMatch, pubFinished, round, nreq, connVars>>

DeckStep(p) ==
    \/ DeckAuth(p)
    \/ DeckCacheHit(p)
    \/ DeckCompute(p)
    \/ DeckSet(p)

\* ------------------------------------------------------- COMMUNITY group
\* A group of kind COMMUNITY with two active members.  Its swipes are Interaction
\* rows, which belong to the user and not to the group, and its deck has a cache
\* entry of its own.  A request runs from start to end before the next one.
InteractedIds ==
    {m \in Movies : \E u \in CommunityMembers : interaction[<<u, m>>] # NONE}

CommunityResponse(kind, u, status, msg, deck) ==
    [kind |-> kind, user |-> u, status |-> status, msg |-> msg, isMatch |-> FALSE,
     deck |-> deck]

\* Mutant: a community swipe also writes the GroupSwipe row of the movie.
CommunitySwipe_WritesGroupSwipe(u, m, a) ==
    /\ \A q \in Workers : Free(q)
    /\ IF u \notin CommunityMembers
       THEN /\ resp' = CommunityResponse("cswipe", u, HTTP_403_FORBIDDEN, "not a member", <<>>)
            /\ UNCHANGED <<interaction, swipe>>
       ELSE IF m = NoMovie
       THEN /\ resp' = CommunityResponse("cswipe", u, HTTP_400_BAD_REQUEST, "tmdb_id required", <<>>)
            /\ UNCHANGED <<interaction, swipe>>
       ELSE /\ interaction' = [interaction EXCEPT ![<<u, m>>] = a]
            /\ swipe' = [swipe EXCEPT ![<<u, m>>] = a]
            /\ resp' = CommunityResponse("cswipe", u,
                                         IF interaction[<<u, m>>] = NONE
                                         THEN HTTP_201_CREATED ELSE HTTP_200_OK,
                                         "", <<>>)
    /\ UNCHANGED <<groupVars, statusResp, catalogVars, connVars, communityDeck,
                   member, match, matchedAt, deckCache, pubMatch, pubFinished, round, nreq, proc>>

\* swipe_like / swipe_dislike on the COMMUNITY group: membership and tmdb_id are
\* checked, then the user's Interaction row of the movie is updated or created and
\* the response is returned from inside the branch.
CommunitySwipe(u, m, a) ==
    /\ \A q \in Workers : Free(q)
    /\ IF u \notin CommunityMembers
       THEN /\ resp' = CommunityResponse("cswipe", u, HTTP_403_FORBIDDEN, "not a member", <<>>)
            /\ UNCHANGED interaction
       ELSE IF m = NoMovie
       THEN /\ resp' = CommunityResponse("cswipe", u, HTTP_400_BAD_REQUEST, "tmdb_id required", <<>>)
            /\ UNCHANGED interaction
       ELSE /\ interaction' = [interaction EXCEPT ![<<u, m>>] = a]
            /\ resp' = CommunityResponse("cswipe", u,
                                         IF interaction[<<u, m>>] = NONE
                                         THEN HTTP_201_CREATED ELSE HTTP_200_OK,
                                         "", <<>>)
    /\ UNCHANGED <<groupVars, statusResp, catalogVars, connVars, communityDeck,
                   dbVars, deckCache, pubMatch, pubFinished, round, nreq, proc>>

\* get_group_deck on the COMMUNITY group: a non-empty cached list is returned cut
\* to the limit; otherwise the genre's candidates minus the movies with an
\* Interaction row of an active member are cached and returned cut to the limit.
CommunityDeck(u, limit) ==
    LET filtered == FilterOut(Catalog(2 * limit), InteractedIds) IN
    /\ \A q \in Workers : Free(q)
    /\ IF u \notin CommunityMembers
       THEN /\ resp' = CommunityResponse("cdeck", u, HTTP_403_FORBIDDEN, "not a member", <<>>)
            /\ UNCHANGED communityDeck
       ELSE IF communityDeck # <<>>
       THEN /\ resp' = CommunityResponse("cdeck", u, HTTP_200_OK, "cached",
                                         Take(communityDeck, limit))
            /\ UNCHANGED communityDeck
       ELSE /\ communityDeck' = filtered
            /\ resp' = CommunityResponse("cdeck", u, HTTP_200_OK, "", Take(filtered, limit))
    /\ UNCHANGED <<groupVars, statusResp, catalogVars, connVars, interaction,
                   dbVars, deckCache, pubMatch, pubFinished, round, nreq, proc>>

\* The cache entry of the community deck times out (CACHE_TIMEOUT).
CommunityDeckExpire ==
    /\ communityDeck # <<>>
    /\ communityDeck' = <<>>
    /\ UNCHANGED <<groupVars, statusResp, catalogVars, connVars, interaction, httpVars>>

\* ------------------------------------------------- rounds and membership
\* Mutant: the rows are deleted and the cache entry is left in place.
ClearSwipes_KeepsCache(u) ==
    /\ IsMember(u)
    /\ round < MaxRounds
    /\ ~\E q \in Workers :
          InTxn(q) /\ proc[q].wrote /\ swipe[<<proc[q].user, proc[q].movie>>] # NONE
    /\ swipe' = [k \in Users \X Movies |-> NONE]
    /\ deckCache' = deckCache
    /\ round' = round + 1
    /\ pubFinished' = 0
    /\ proc' = [q \in Workers |->
                 IF proc[q].pc = "upsert" /\ proc[q].existing # NONE
                 THEN [proc[q] EXCEPT !.stale = TRUE] ELSE proc[q]]
    /\ UNCHANGED <<groupVars, communityVars, statusResp, catalogVars, member, match, matchedAt, pubMatch, nreq, resp, connVars>>

\* clear_group_swipes by an active member: DELETE of the group's swipe rows (it
\* waits for open transactions that updated one of them), then the cache eviction.
\* A worker that still holds one of the deleted rows holds a stale object.
ClearSwipes(u) ==
    /\ IsMember(u)
    /\ round < MaxRounds
    /\ ~\E q \in Workers :
          InTxn(q) /\ proc[q].wrote /\ swipe[<<proc[q].user, proc[q].movie>>] # NONE
    /\ swipe' = [k \in Users \X Movies |-> NONE]
    /\ deckCache' = <<>>
    /\ round' = round + 1
    /\ pubFinished' = 0
    /\ proc' = [q \in Workers |->
                 IF proc[q].pc = "upsert" /\ proc[q].existing # NONE
                 THEN [proc[q] EXCEPT !.stale = TRUE] ELSE proc[q]]
    /\ UNCHANGED <<groupVars, communityVars, statusResp, catalogVars, member, match, matchedAt, pubMatch, nreq, resp, connVars>>

\* join_group: an active member is left alone, a member who left is reactivated,
\* anyone else gets a new row.
JoinGroup(u) ==
    /\ member' = [member EXCEPT ![u] = "ACTIVE"]
    /\ UNCHANGED <<groupVars, communityVars, statusResp, catalogVars, swipe, match, matchedAt, deckCache, pubMatch, pubFinished, round,
                   nreq, proc,
                   resp, connVars>>

\* The admin site's change form of a GroupMember row, clearing is_active.
AdminDeactivate(u) ==
    /\ member[u] = "ACTIVE"
    /\ member' = [member EXCEPT ![u] = "INACTIVE"]
    /\ UNCHANGED <<groupVars, communityVars, statusResp, catalogVars, swipe, match, matchedAt, deckCache, pubMatch, pubFinished, round,
                   nreq, proc,
                   resp, connVars>>

\* check_completion_status: a stranger gets 403; a member gets the completion
\* record and, when everyone finished, the number of common matches.
CheckCompletionStatus(u) ==
    /\ statusResp' =
          IF ~IsMember(u)
          THEN [NoStatus EXCEPT !.status = HTTP_403_FORBIDDEN]
          ELSE LET status == CheckAllMembersFinished IN
               [status |-> HTTP_200_OK,
                all_finished |-> status.all_finished,
                total_members |-> status.total_members,
                finished_members |-> status.finished_members,
                common_matches_count |->
                    IF status.all_finished THEN Cardinality(GetAllCommonMatches) ELSE 0]
    /\ detailsCache' = IF IsMember(u) /\ CheckAllMembersFinished.all_finished
                       THEN CacheDetails(CommonMovieIds) ELSE detailsCache
    /\ UNCHANGED <<groupVars, communityVars, httpVars, connVars, tmdbUp>>

\* The TMDB API stops answering: from here on every request to it raises.
TmdbOutage ==
    /\ tmdbUp
    /\ tmdbUp' = FALSE
    /\ UNCHANGED <<groupVars, communityVars, statusResp, detailsCache, httpVars, connVars>>

\* ------------------------------------------------------ websocket consumers
\* The scopes a handshake can carry: no user object, the anonymous user, or a
\* logged-in user.
Handshakes == {<<NoUser, "none">>, <<NoUser, "anon">>} \cup {<<u, "auth">> : u \in Users}

\* Connections take the slots in order.
NextConn(c) == conn[c].state = "none" /\ \A d \in Conns : d < c => conn[d].state # "none"

\* The frames a connection has been sent and the events queued for it stay under
\* the bound: a client sends no further frame beyond it.
Quota(c) == BagCardinality(out[c]) + Len(inbox[c]) < MaxFrames

\* The same for every connection of the room a frame of c can reach.
RoomQuota(c) == \A d \in room[conn[c].room] \cup {c} : Quota(d)

\* self.send(text_data=json.dumps(frame)) on connection c.
Send(c, frame) == [out EXCEPT ![c] = @ (+) SetToBag({frame})]

\* A handshake for the chat or the match room of the group arrives.
ConnOpen(c, kind, h) ==
    /\ conn[c].state = "none"
    /\ conn' = [conn EXCEPT ![c] = [NoConn EXCEPT !.state = "connecting", !.kind = kind,
                                                  !.room = kind,
                                                  !.user = h[1], !.auth = h[2]]]
    /\ UNCHANGED <<groupVars, communityVars, statusResp, catalogVars, httpVars, room, inbox, out, chatLog>>

\* A handshake for the chat or the match room of the second group arrives.
ConnOpenOther(c, kind, h) ==
    /\ conn[c].state = "none"
    /\ conn' = [conn EXCEPT ![c] = [NoConn EXCEPT !.state = "connecting", !.kind = kind,
                                                  !.room = OtherRoom(kind),
                                                  !.user = h[1], !.auth = h[2]]]
    /\ UNCHANGED <<groupVars, communityVars, statusResp, catalogVars, httpVars, room, inbox, out, chatLog>>

\* A handshake for the match room of the COMMUNITY group arrives.
ConnOpenCommunity(c, h) ==
    /\ conn[c].state = "none"
    /\ conn' = [conn EXCEPT ![c] = [NoConn EXCEPT !.state = "connecting", !.kind = "match",
                                                  !.room = CommunityRoom,
                                                  !.user = h[1], !.auth = h[2]]]
    /\ UNCHANGED <<groupVars, communityVars, statusResp, catalogVars, httpVars, room, inbox, out, chatLog>>

\* Mutant: the check only asks for a user object in the scope.
IsAuthenticated_UserPresent(auth) == auth # "none"

\* self.user and self.user.is_authenticated
IsAuthenticated(auth) == auth = "auth"

\* ChatConsumer queries the active GroupMember row; MatchConsumer returns True.
VerifyGroupMembership(kind, u) == IF kind = "chat" THEN IsMember(u) ELSE TRUE

\* The same check of a connection, against the rows of the group its URL names.
VerifyRoomMembership(c) ==
    IF conn[c].room = CommunityRoom
    THEN (IF conn[c].kind = "chat" THEN conn[c].user \in CommunityMembers ELSE TRUE)
    ELSE IF conn[c].room \in OtherRooms
    THEN (IF conn[c].kind = "chat" THEN conn[c].user \in OtherMembers ELSE TRUE)
    ELSE VerifyGroupMembership(conn[c].kind, conn[c].user)

\* connect, the authentication check: close(4001) without a logged-in user.
ConnAuthenticate(c) ==
    /\ conn[c].state = "connecting"
    /\ conn' = [conn EXCEPT ![c] =
                 IF ~IsAuthenticated(conn[c].auth)
                 THEN [@ EXCEPT !.state = "closed", !.code = CLOSE_UNAUTHENTICATED]
                 ELSE [@ EXCEPT !.state = "authenticated"]]
    /\ UNCHANGED <<groupVars, communityVars, statusResp, catalogVars, httpVars, room, inbox, out, chatLog>>

\* connect, the membership check: close(4003) when it says no.  activeAtCheck keeps
\* what the GroupMember table said at that moment.
ConnVerify(c) ==
    /\ conn[c].state = "authenticated"
    /\ conn' = [conn EXCEPT ![c] =
                 IF ~VerifyRoomMembership(c)
                 THEN [@ EXCEPT !.state = "closed", !.code = CLOSE_NOT_MEMBER,
                                !.checked = TRUE,
                                !.activeAtCheck = (member[conn[c].user] = "ACTIVE")]
                 ELSE [@ EXCEPT !.state = "verified", !.checked = TRUE,
                                !.activeAtCheck = (member[conn[c].user] = "ACTIVE")]]
    /\ UNCHANGED <<groupVars, communityVars, statusResp, catalogVars, httpVars, room, inbox, out, chatLog>>

\* connect: channel_layer.group_add(room_group_name, channel_name)
ConnGroupAdd(c) ==
    /\ conn[c].state = "verified"
    /\ room' = [room EXCEPT ![conn[c].room] = @ \cup {c}]
    /\ conn' = [conn EXCEPT ![c].state = "added"]
    /\ UNCHANGED <<groupVars, communityVars, statusResp, catalogVars, httpVars, inbox, out, chatLog>>

\* connect: accept(), then the connection_established message to the client.
ConnAccept(c) ==
    /\ conn[c].state = "added"
    /\ conn' = [conn EXCEPT ![c].state = "subscribed", ![c].accepted = TRUE]
    /\ out' = Send(c, Frame("connection_established", "connection_established", NoMovie))
    /\ UNCHANGED <<groupVars, communityVars, statusResp, catalogVars, httpVars, room, inbox, chatLog>>

\* Mutant: disconnect without its group_discard.
ConnDisconnect_KeepsRoom(c) ==
    /\ conn[c].state = "subscribed"
    /\ room' = room
    /\ conn' = [conn EXCEPT ![c].state = "closed"]
    /\ inbox' = [inbox EXCEPT ![c] = <<>>]
    /\ UNCHANGED <<groupVars, communityVars, statusResp, catalogVars, httpVars, out, chatLog>>

\* disconnect: the client goes away and the channel leaves the room's group; the
\* events still queued for the consumer are never handled.
ConnDisconnect(c) ==
    /\ conn[c].state = "subscribed"
    /\ room' = [room EXCEPT ![conn[c].room] = @ \ {c}]
    /\ conn' = [conn EXCEPT ![c].state = "closed"]
    /\ inbox' = [inbox EXCEPT ![c] = <<>>]
    /\ UNCHANGED <<groupVars, communityVars, statusResp, catalogVars, httpVars, out, chatLog>>

\* The states a consumer is in between two of its handlers: connect has not run,
\* has closed the handshake, or has accepted it.
BetweenHandlers == {"none", "closed", "subscribed"}

\* Mutant: disconnect empties the group of its room.
ConnClose_EmptiesRoom(c) ==
    /\ conn[c].state \in BetweenHandlers
    /\ room' = IF conn[c].state = "none" THEN room
               ELSE [room EXCEPT ![conn[c].room] = {}]
    /\ conn' = [conn EXCEPT ![c].state = IF @ = "none" THEN "none" ELSE "closed"]
    /\ inbox' = [inbox EXCEPT ![c] = <<>>]
    /\ UNCHANGED <<groupVars, communityVars, statusResp, catalogVars, httpVars, out, chatLog>>

\* disconnect called in any state of the consumer: group_discard of the channel
\* when connect has set room_group_name, nothing otherwise; discarding a channel
\* that is not in the group changes nothing.
ConnClose(c) ==
    /\ conn[c].state \in BetweenHandlers
    /\ room' = IF conn[c].state = "none" THEN room
               ELSE [room EXCEPT ![conn[c].room] = @ \ {c}]
    /\ conn' = [conn EXCEPT ![c].state = IF @ = "none" THEN "none" ELSE "closed"]
    /\ inbox' = [inbox EXCEPT ![c] = <<>>]
    /\ UNCHANGED <<groupVars, communityVars, statusResp, catalogVars, httpVars, out, chatLog>>

\* Mutant: the match consumer has no frame for match_found.
HandlerFrames_DropsMatch(c, ev) ==
    IF ev.type = "all_members_finished"
    THEN {Frame(NoType, "all_members_finished", NoMovie)}
    ELSE IF ev.type = "chat_message"
    THEN {ChatMessageFrame(ev.message_id)}
    ELSE {}

\* Mutant: the typing_indicator handler without its check of the user.
HandlerFrames_EchoesTyping(c, ev) ==
    IF ev.type = "match_found"
    THEN {MatchFoundFrame(ev.movie, ev.info)}
    ELSE IF ev.type = "all_members_finished"
    THEN {Frame(NoType, "all_members_finished", NoMovie)}
    ELSE IF ev.type = "chat_message"
    THEN {ChatMessageFrame(ev.message_id)}
    ELSE {Frame("typing_indicator", "typing_indicator", NoMovie)}

\* The frame a consumer's handler builds for an event of its room; typing
\* indicators are not echoed to the user who is typing.
HandlerFrames(c, ev) ==
    IF ev.type = "match_found"
    THEN {MatchFoundFrame(ev.movie, ev.info)}
    ELSE IF ev.type = "all_members_finished"
    THEN {Frame(NoType, "all_members_finished", NoMovie)}
    ELSE IF ev.type = "chat_message"
    THEN {ChatMessageFrame(ev.message_id)}
    ELSE IF ev.user # conn[c].user
    THEN {Frame("typing_indicator", "typing_indicator", NoMovie)}
    ELSE {}

\* Mutant: a queued event is handled as soon as the channel is in the group,
\* before connect has accepted.
ConnDispatch_BeforeAccept(c) ==
    /\ conn[c].state \in {"added", "subscribed"}
    /\ inbox[c] # <<>>
    /\ inbox' = [inbox EXCEPT ![c] = Tail(@)]
    /\ conn' = [conn EXCEPT ![c].got = TRUE]
    /\ out' = [out EXCEPT ![c] = @ (+) SetToBag(HandlerFrames(c, Head(inbox[c])))]
    /\ UNCHANGED <<groupVars, communityVars, statusResp, catalogVars, httpVars, room, chatLog>>

\* The consumer takes the next queued event and runs its handler (match_found,
\* all_members_finished, chat_message, typing_indicator).
ConnDispatch(c) ==
    /\ conn[c].state = "subscribed"
    /\ inbox[c] # <<>>
    /\ inbox' = [inbox EXCEPT ![c] = Tail(@)]
    /\ conn' = [conn EXCEPT ![c].got = TRUE]
    /\ out' = [out EXCEPT ![c] = @ (+) SetToBag(HandlerFrames(c, Head(inbox[c])))]
    /\ UNCHANGED <<groupVars, communityVars, statusResp, catalogVars, httpVars, room, chatLog>>

\* The type values a client frame can carry; "absent" is a frame without the key.
InboundTypes == {"chat_message", "typing", "ping", "bogus", "absent"}

\* Mutant: a type that is not recognized falls through to the room's default
\* handler.
Route_DefaultsUnknown(kind, t) ==
    IF kind = "chat" THEN (IF t = "typing" THEN "typing" ELSE "chat_message")
    ELSE "ping"

\* Mutant: a frame without a type is an unknown one.
Route_NoDefault(kind, t) ==
    IF kind = "chat" /\ t \in {"chat_message", "typing"} THEN t
    ELSE IF kind = "match" /\ t = "ping" THEN "ping"
    ELSE "error"

\* receive: the handler chosen for a client frame of type t; a missing type is
\* chat_message in the chat room and ping in the match room.
Route(kind, t) ==
    LET mt == IF t = "absent" THEN (IF kind = "chat" THEN "chat_message" ELSE "ping")
              ELSE t IN
    IF kind = "chat" /\ mt \in {"chat_message", "typing"} THEN mt
    ELSE IF kind = "match" /\ mt = "ping" THEN "ping"
    ELSE "error"

\* handle_chat_message with a non-empty text on a chat connection: the message is
\* stored and sent to the chat room.
ChatSend(c) ==
    /\ conn[c].state = "subscribed" /\ conn[c].kind = "chat"
    /\ RoomQuota(c)
    /\ chatLog' = chatLog + 1
    /\ inbox' = Deliver(conn[c].room, ChatEvent(conn[c].user, chatLog + 1))
    /\ UNCHANGED <<groupVars, communityVars, statusResp, catalogVars, httpVars, conn, room, out>>

\* handle_chat_message when save_message stores nothing: the GroupSession row is
\* gone or the INSERT raises, save_message returns None, and the event is sent
\* all the same.
ChatSendUnsaved(c) ==
    /\ conn[c].state = "subscribed" /\ conn[c].kind = "chat"
    /\ RoomQuota(c)
    /\ inbox' = Deliver(conn[c].room, ChatEvent(conn[c].user, NoMessage))
    /\ UNCHANGED <<groupVars, communityVars, statusResp, catalogVars, httpVars, conn, room, out, chatLog>>

\* receive of a well-formed client frame of type t.
ConnReceive(c, t) ==
    LET h == Route(conn[c].kind, t) IN
    /\ conn[c].state = "subscribed"
    /\ RoomQuota(c)
    /\ IF h = "chat_message"
       THEN ChatSend(c)
       ELSE /\ inbox' = IF h = "typing"
                        THEN Deliver(conn[c].room,
                                     Event("typing_indicator", NoMovie, conn[c].user))
                        ELSE inbox
            /\ out' = IF h = "ping" THEN Send(c, Frame("pong", "pong", NoMovie))
                      ELSE IF h = "error" THEN Send(c, Frame("error", "error", NoMovie))
                      ELSE out
            /\ UNCHANGED <<groupVars, communityVars, statusResp, catalogVars, httpVars, conn, room, chatLog>>

\* The text frames a client can send: text that is not JSON, JSON that is not an
\* object, and JSON objects with their type and message keys.  The message key
\* holds a string, is absent, or holds null.
TextFrames ==
    {[json |-> j, type |-> "absent", key |-> "absent", message |-> <<>>] :
        j \in {"malformed", "scalar"}}
    \cup [json : {"object"}, type : InboundTypes, key : {"string"}, message : Texts]
    \cup [json : {"object"}, type : InboundTypes, key : {"absent", "null"},
          message : {<<>>}]

RECURSIVE LStrip(_)
LStrip(s) == IF s # <<>> /\ Head(s) = " " THEN LStrip(Tail(s)) ELSE s

RECURSIVE RStrip(_)
RStrip(s) ==
    IF s # <<>> /\ s[Len(s)] = " " THEN RStrip(SubSeq(s, 1, Len(s) - 1)) ELSE s

\* Mutant: the content is taken as it was sent.
Strip_Nothing(s) == s

\* str.strip()
Strip(s) == RStrip(LStrip(s))

\* Mutant: text that does not parse is taken for an empty object.
ParseError_Swallowed(f) == "none"

\* json.loads(text_data) and data.get("type", ...) at the head of receive: the
\* message of the except branch they end in, "none" when they succeed.
ParseError(f) ==
    IF f.json = "malformed" THEN "Invalid JSON format"
    ELSE IF f.json = "scalar" THEN "Error processing message"
    ELSE "none"

\* handle_chat_message up to its check of the content: data.get("message", "")
\* .strip() raises on a value that is not a string, and an empty result is refused.
ContentError(f) ==
    IF f.key = "null" THEN "Error processing message"
    ELSE IF Strip(IF f.key = "absent" THEN <<>> ELSE f.message) = <<>>
    THEN "Message content cannot be empty"
    ELSE "none"

\* receive of any text frame f: a frame that fails to parse, or a chat message
\* without content, is answered with an error frame; any other frame goes to the
\* handler of its type.
ConnReceiveText(c, f) ==
    LET error == IF ParseError(f) # "none" THEN ParseError(f)
                 ELSE IF Route(conn[c].kind, f.type) = "chat_message" THEN ContentError(f)
                 ELSE "none"
    IN
    IF error = "none"
    THEN ConnReceive(c, f.type)
    ELSE /\ conn[c].state = "subscribed"
         /\ RoomQuota(c)
         /\ out' = Send(c, Frame("error", error, NoMovie))
         /\ UNCHANGED <<groupVars, communityVars, statusResp, catalogVars, httpVars, conn, room, inbox, chatLog>>

\* A swipe in the second group publishes to that group's match room:
\* _broadcast_match_event or _broadcast_completion_event with its group_code.
OtherGroupPublish(t) ==
    /\ \A c \in room["match_other"] : Quota(c)
    /\ inbox' = Deliver("match_other",
                        IF t = "match_found"
                        THEN MatchEvent(CHOOSE m \in Contested : TRUE, "details")
                        ELSE Event("all_members_finished", NoMovie, NoUser))
    /\ UNCHANGED <<groupVars, communityVars, statusResp, catalogVars, httpVars, conn, room, out, chatLog>>

ConnStep(c) ==
    \/ ConnAuthenticate(c)
    \/ ConnVerify(c)
    \/ ConnGroupAdd(c)
    \/ ConnAccept(c)
    \/ ConnDisconnect(c)
    \/ ConnDispatch(c)
    \/ ChatSend(c)

\* ---------------------------------------------------- groups and membership
\* The GroupSession and GroupMember tables of the sessions created by the
\* create / join requests below.  A request runs in a worker of its own, one
\* database statement per step; an INSERT that meets a committed row with the same
\* unique key raises IntegrityError, and one that meets an uncommitted row waits for
\* that transaction, so an insert and its commit are taken as one step.
GroupFree(p) == gproc[p].pc = "idle"

\* Worker p's view returns its JsonResponse / Response.
GroupReturn(p, status, msg) ==
    /\ gproc' = [gproc EXCEPT ![p] = IdleGroupProc]
    /\ gresp' = [kind |-> gproc[p].kind, user |-> gproc[p].user, code |-> gproc[p].code,
                 status |-> status, msg |-> msg, req |-> gproc[p].req]

\* A request arrives at free worker p.
GroupAccept(p) ==
    /\ GroupFree(p)
    /\ greq < MaxGroupRequests
    /\ greq' = greq + 1

\* GroupSession(...): the constructor fills id from its default, uuid.uuid4.
NewGroupSession(code, u, public) ==
    [id |-> Cardinality(session) + 1, group_code |-> code, creator |-> u,
     is_public |-> public]

\* A GroupMember row; id is the AutoField.
NewGroupMember(rows, g, u, role) ==
    [id |-> Cardinality(rows) + 1, group_session |-> g, user |-> u, role |-> role,
     is_active |-> TRUE]

\* GroupSession.objects.filter(group_code=code).exists()
CodeExists(code) == \E s \in session : s.group_code = code

\* The rows of (group, user) in a GroupMember table.
MemberRows(rows, g, u) == {r \in rows : r.group_session = g /\ r.user = u}

\* Mutant: the table without its uniq_group_user constraint.
UniqGroupUser_Dropped(rows, g, u) == TRUE

\* UniqueConstraint uniq_group_user: a row of (group, user) may be inserted.
UniqGroupUser(rows, g, u) == MemberRows(rows, g, u) = {}

\* Mutant: the column without unique=True.
UniqueGroupCode_Dropped(code) == TRUE

\* group_code = CharField(unique=True): a session with this code may be inserted.
UniqueGroupCode(code) == ~CodeExists(code)

\* GroupMember.objects.get_or_create(group_session, user, defaults={role, is_active}).
MemberGetOrCreate(rows, g, u, role) ==
    IF MemberRows(rows, g, u) # {} THEN rows
    ELSE rows \cup {NewGroupMember(rows, g, u, role)}

\* GroupSession.save() after its INSERT: the creator is enrolled when the instance
\* had no primary key before the save.
GroupSessionSave(s, pkBefore, rows) ==
    LET is_new == pkBefore = NoGroup IN
    IF is_new /\ s.creator # NoUser
    THEN MemberGetOrCreate(rows, s.id, s.creator, CREATOR)
    ELSE rows

\* Sessions being created by a worker: they take a slot of the bound.
Creating == {q \in Workers : gproc[q].pc \in {"generate", "insertSession"}}

Capacity == Cardinality(session) + Cardinality(Creating) < MaxGroups

\* create_group: the request enters the atomic block.
CreateGroupStart(p, u) ==
    /\ GroupAccept(p)
    /\ UNCHANGED swipeVars
    /\ Capacity
    /\ gproc' = [gproc EXCEPT ![p] = [IdleGroupProc EXCEPT !.pc = "generate",
                     !.kind = "create", !.user = u, !.req = greq + 1]]
    /\ UNCHANGED <<session, gmember, gresp>>

\* generate_unique_code: random codes are drawn until one is met that no stored
\* session has.
GenerateUniqueCode(p) ==
    /\ gproc[p].pc = "generate"
    /\ UNCHANGED swipeVars
    /\ \E code \in Codes :
          /\ ~CodeExists(code)
          /\ gproc' = [gproc EXCEPT ![p].pc = "insertSession", ![p].code = code]
    /\ UNCHANGED <<session, gmember, gresp, greq>>

\* GroupSession.objects.create(...) and what follows it in the view.  create_group
\* adds the creator's row and commits both; join_or_create_community_group returns
\* after the create.  IntegrityError leaves through the view's except branch.
InsertSession(p) ==
    LET s == NewGroupSession(gproc[p].code, gproc[p].user, gproc[p].kind = "community")
        saved == GroupSessionSave(s, s.id, gmember)
    IN
    /\ gproc[p].pc = "insertSession"
    /\ UNCHANGED swipeVars
    /\ UNCHANGED greq
    /\ IF ~UniqueGroupCode(s.group_code)
       THEN /\ GroupReturn(p, HTTP_500_INTERNAL_SERVER_ERROR, "error")
            /\ UNCHANGED <<session, gmember>>
       ELSE IF gproc[p].kind = "create"
       THEN IF UniqGroupUser(saved, s.id, s.creator)
            THEN /\ session' = session \cup {s}
                 /\ gmember' = saved \cup {NewGroupMember(saved, s.id, s.creator, CREATOR)}
                 /\ GroupReturn(p, HTTP_201_CREATED, "created")
            ELSE /\ GroupReturn(p, HTTP_500_INTERNAL_SERVER_ERROR, "error")
                 /\ UNCHANGED <<session, gmember>>
       ELSE /\ session' = session \cup {s}
            /\ gmember' = saved
            /\ GroupReturn(p, HTTP_200_OK, "created")

\* The public sessions a community request can be put into (one genre).
PublicGroups == {s \in session : s.is_public}

\* join_or_create_community_group: the newest public session is looked up, then
\* the caller's row in it.
CommunityStart(p, u) ==
    /\ GroupAccept(p)
    /\ UNCHANGED swipeVars
    /\ IF PublicGroups = {}
       THEN /\ Capacity
            /\ gproc' = [gproc EXCEPT ![p] = [IdleGroupProc EXCEPT !.pc = "generate",
                             !.kind = "community", !.user = u, !.req = greq + 1]]
            /\ UNCHANGED <<session, gmember, gresp>>
       ELSE LET g == CHOOSE s \in PublicGroups : \A t \in PublicGroups : t.id <= s.id IN
            /\ UNCHANGED <<session, gmember>>
            /\ IF MemberRows(gmember, g.id, u) # {}
               THEN /\ gproc' = gproc
                    /\ gresp' = [kind |-> "community", user |-> u, code |-> g.group_code,
                                 status |-> HTTP_200_OK, msg |-> "already_member",
                                 req |-> greq + 1]
               ELSE /\ gproc' = [gproc EXCEPT ![p] = [IdleGroupProc EXCEPT
                                     !.pc = "communityJoin", !.kind = "community",
                                     !.user = u, !.code = g.group_code, !.group = g.id,
                                     !.req = greq + 1]]
                    /\ UNCHANGED gresp

\* GroupMember.objects.create(...) of join_or_create_community_group.
CommunityJoin(p) ==
    /\ gproc[p].pc = "communityJoin"
    /\ UNCHANGED swipeVars
    /\ UNCHANGED <<session, greq>>
    /\ IF UniqGroupUser(gmember, gproc[p].group, gproc[p].user)
       THEN /\ gmember' = gmember \cup
                    {NewGroupMember(gmember, gproc[p].group, gproc[p].user, MEMBER)}
            /\ GroupReturn(p, HTTP_200_OK, "joined")
       ELSE /\ GroupReturn(p, HTTP_500_INTERNAL_SERVER_ERROR, "error")
            /\ UNCHANGED gmember

\* Mutant: the view without its look-up of the caller's row.
ExistingMember_Skipped(g, u) == {}

\* GroupMember.objects.filter(group_session, user).first(): the set holding the
\* first row, empty when there is none.
ExistingMember(g, u) ==
    {r \in MemberRows(gmember, g, u) : \A t \in MemberRows(gmember, g, u) : r.id <= t.id}

\* join_group: the session is looked up by its code, then the caller's row.
JoinGroupStart(p, u, code) ==
    LET found == {s \in session : s.group_code = code}
        me == [IdleGroupProc EXCEPT !.kind = "join", !.user = u, !.code = code,
                  !.req = greq + 1]
    IN
    /\ GroupAccept(p)
    /\ UNCHANGED swipeVars
    /\ UNCHANGED <<session, gmember>>
    /\ IF Cardinality(found) # 1
       THEN /\ gproc' = gproc
            /\ gresp' = [kind |-> "join", user |-> u, code |-> code,
                         status |-> IF found = {} THEN HTTP_404_NOT_FOUND
                                    ELSE HTTP_500_INTERNAL_SERVER_ERROR,
                         msg |-> "error", req |-> greq + 1]
       ELSE LET g == CHOOSE s \in found : TRUE
                existing_member == ExistingMember(g.id, u)
            IN
            IF existing_member = {}
            THEN /\ gproc' = [gproc EXCEPT ![p] = [me EXCEPT !.pc = "joinInsert",
                                                       !.group = g.id]]
                 /\ UNCHANGED gresp
            ELSE LET row == CHOOSE r \in existing_member : TRUE IN
                 IF row.is_active
                 THEN /\ gproc' = gproc
                      /\ gresp' = [kind |-> "join", user |-> u, code |-> code,
                                   status |-> HTTP_200_OK, msg |-> "alreadyMember",
                                   req |-> greq + 1]
                 ELSE /\ gproc' = [gproc EXCEPT ![p] = [me EXCEPT !.pc = "joinReactivate",
                                                            !.group = g.id, !.row = row]]
                      /\ UNCHANGED gresp

\* existing_member.is_active = True; existing_member.save(): every column of the
\* row with this id is written from the instance read before.
JoinReactivate(p) ==
    LET row == gproc[p].row IN
    /\ gproc[p].pc = "joinReactivate"
    /\ UNCHANGED swipeVars
    /\ gmember' = {r \in gmember : r.id # row.id} \cup {[row EXCEPT !.is_active = TRUE]}
    /\ GroupReturn(p, HTTP_200_OK, "rejoined")
    /\ UNCHANGED <<session, greq>>

\* GroupMember.objects.create(role=MEMBER, is_active=True) in its atomic block.
JoinInsert(p) ==
    /\ gproc[p].pc = "joinInsert"
    /\ UNCHANGED swipeVars
    /\ UNCHANGED <<session, greq>>
    /\ IF UniqGroupUser(gmember, gproc[p].group, gproc[p].user)
       THEN /\ gmember' = gmember \cup
                    {NewGroupMember(gmember, gproc[p].group, gproc[p].user, MEMBER)}
            /\ GroupReturn(p, HTTP_201_CREATED, "joined")
       ELSE /\ GroupReturn(p, HTTP_500_INTERNAL_SERVER_ERROR, "error")
            /\ UNCHANGED gmember

\* join_community, for the community session g its model method returns: in one
\* atomic block the caller's row is fetched or created (a lost insert race is
\* answered by fetching again), and a row found inactive is saved as active.
JoinCommunity(p, u, g) ==
    LET rows == MemberGetOrCreate(gmember, g.id, u, MEMBER) IN
    /\ GroupAccept(p)
    /\ UNCHANGED swipeVars
    /\ g \in session
    /\ gmember' = {IF r.group_session = g.id /\ r.user = u
                   THEN [r EXCEPT !.is_active = TRUE] ELSE r : r \in rows}
    /\ gproc' = gproc
    /\ gresp' = [kind |-> "joinCommunity", user |-> u, code |-> g.group_code,
                 status |-> HTTP_200_OK, msg |-> "joined", req |-> greq + 1]
    /\ UNCHANGED session

\* The admin site's change form of a GroupMember row of these sessions, clearing
\* is_active.
AdminDeactivateMember(r) ==
    /\ r \in gmember /\ r.is_active
    /\ gmember' = (gmember \ {r}) \cup {[r EXCEPT !.is_active = FALSE]}
    /\ UNCHANGED <<session, gproc, gresp, greq, swipeVars>>

GroupStep(p) ==
    \/ GenerateUniqueCode(p)
    \/ InsertSession(p)
    \/ CommunityJoin(p)
    \/ JoinReactivate(p)
    \/ JoinInsert(p)

\* ------------------------------------------------------------ specifications
\* Requests are handed to the lowest-numbered free worker.
NextWorker(p) == Free(p) /\ \A q \in Workers : q < p => ~Free(q)

AllFree == \A q \in Workers : Free(q)

Budget == nreq < MaxRequests /\ nreq' = nreq + 1

\* Concurrent swipes on the contested movies, with joins and new rounds.
Next ==
    \/ \E p \in Workers, u \in Users, m \in Contested, a \in Actions :
          NextWorker(p) /\ Budget /\ SwipeStart(p, u, m, a)
    \/ \E p \in Workers : SwipeStep(p)
    \/ \E u \in Users : ClearSwipes(u)
    \/ \E u \in Users : JoinGroup(u)

Spec == Init /\ [][Next]_vars

\* One request at a time (a single-threaded server), with members leaving and
\* rejoining.
NextSeq ==
    \/ \E p \in Workers, u \in Users, m \in Contested \cup {NoMovie}, a \in Actions :
          AllFree /\ NextWorker(p) /\ Budget /\ SwipeStart(p, u, m, a)
    \/ \E p \in Workers : SwipeStep(p)
    \/ \E u \in Users : AllFree /\ ClearSwipes(u)
    \/ \E u \in Users : AllFree /\ JoinGroup(u)
    \/ \E u \in Users : AllFree /\ AdminDeactivate(u)

SpecSeq == Init /\ [][NextSeq]_vars

\* The movies of a round besides the contested ones are swiped in catalog order.
NextFiller(u) ==
    {m \in Movies \ Contested :
        /\ swipe[<<u, m>>] = NONE
        /\ \A k \in Movies \ Contested : k < m => swipe[<<u, k>>] # NONE}

RoundInput(u, m, a) == m \in Contested \/ (m \in NextFiller(u) /\ a = DISLIKE)

\* Whole rounds: the members swipe through the catalog up to and past the quota,
\* each member one card at a time and the members concurrently, with joins and
\* clearSwipes between requests.
NextRound ==
    \/ \E p \in Workers, u \in 1..NumRoundUsers, m \in Movies, a \in Actions :
          /\ NextWorker(p) /\ RoundInput(u, m, a) /\ pubFinished < MaxFinishedEvents
          /\ \A q \in Workers : proc[q].user # u
          /\ SwipeStart(p, u, m, a) /\ UNCHANGED nreq
    \/ \E p \in Workers : SwipeStep(p)
    \/ \E u \in 1..NumRoundUsers : AllFree /\ ClearSwipes(u)
    \/ \E u \in 1..NumRoundUsers : AllFree /\ JoinGroup(u)

SpecRound == Init /\ [][NextRound]_vars

\* Deck requests racing with swipes on the contested movies.
NextDeck ==
    \/ \E p \in Workers, u \in Users, m \in Contested, a \in Actions :
          NextWorker(p) /\ Budget /\ SwipeStart(p, u, m, a)
    \/ \E p \in Workers, u \in Users, limit \in 1..MaxLimit :
          NextWorker(p) /\ Budget /\ DeckStart(p, u, limit)
    \/ \E p \in Workers : SwipeStep(p)
    \/ \E p \in Workers : DeckStep(p)
    \/ \E u \in Users : AllFree /\ JoinGroup(u)

SpecDeck == Init /\ [][NextDeck]_vars

\* Rounds of one request at a time with deck requests in between: the creator
\* swipes through the catalog, a second member swipes on the contested movies, and
\* both fetch decks and start new rounds.
NextClear ==
    \/ \E p \in Workers, m \in Movies, a \in Actions :
          /\ AllFree /\ NextWorker(p) /\ RoundInput(Creator, m, a)
          /\ pubFinished < MaxFinishedEvents
          /\ SwipeStart(p, Creator, m, a) /\ UNCHANGED nreq
    \/ \E p \in Workers, u \in 1..NumRoundUsers \ {Creator}, m \in Contested,
          a \in Actions :
          /\ AllFree /\ NextWorker(p) /\ IsMember(u)
          /\ pubFinished < MaxFinishedEvents
          /\ SwipeStart(p, u, m, a) /\ UNCHANGED nreq
    \/ \E p \in Workers, u \in 1..NumRoundUsers, limit \in 1..MaxLimit :
          /\ AllFree /\ NextWorker(p) /\ IsMember(u)
          /\ DeckStart(p, u, limit) /\ UNCHANGED nreq
    \/ \E p \in Workers : SwipeStep(p)
    \/ \E p \in Workers : DeckStep(p)
    \/ \E u \in 1..NumRoundUsers : AllFree /\ ClearSwipes(u)
    \/ \E u \in 1..NumRoundUsers : AllFree /\ JoinGroup(u)

SpecClear == Init /\ [][NextClear]_vars

\* Rounds of one request at a time in which both members swipe through the
\* catalog, leave and rejoin, and poll the completion status.
NextStatus ==
    \/ \E p \in Workers, u \in 1..NumRoundUsers, m \in Movies, a \in Actions :
          /\ AllFree /\ NextWorker(p) /\ RoundInput(u, m, a)
          /\ pubFinished < MaxFinishedEvents
          /\ SwipeStart(p, u, m, a) /\ UNCHANGED nreq
    \/ \E p \in Workers : SwipeStep(p)
    \/ \E u \in 1..NumRoundUsers : AllFree /\ JoinGroup(u)
    \/ \E u \in 1..NumRoundUsers : AllFree /\ AdminDeactivate(u)
    \/ \E u \in 1..NumRoundUsers : AllFree /\ CheckCompletionStatus(u)

SpecStatus == Init /\ [][NextStatus]_vars

\* Swipes on the contested movies and deck requests, one request at a time, with a
\* client in the match room, before and after the TMDB API stops answering.
NextCatalog ==
    \/ \E c \in SoloConns, u \in 1..NumRoundUsers :
          NextConn(c) /\ ConnOpen(c, "match", <<u, "auth">>)
    \/ \E c \in Conns : ConnAuthenticate(c)
    \/ \E c \in Conns : ConnVerify(c)
    \/ \E c \in Conns : ConnGroupAdd(c)
    \/ \E c \in Conns : ConnAccept(c)
    \/ \E c \in Conns : ConnDisconnect(c)
    \/ \E c \in Conns : ConnDispatch(c)
    \/ \E p \in Workers, u \in 1..NumRoundUsers, m \in Contested, a \in Actions :
          /\ AllFree /\ NextWorker(p) /\ IsMember(u)
          /\ SwipeStart(p, u, m, a) /\ UNCHANGED nreq
    \/ \E p \in Workers, u \in 1..NumRoundUsers, limit \in 1..MaxLimit :
          /\ AllFree /\ NextWorker(p) /\ IsMember(u)
          /\ DeckStart(p, u, limit) /\ UNCHANGED nreq
    \/ \E p \in Workers : SwipeStep(p)
    \/ \E p \in Workers : DeckStep(p)
    \/ \E u \in 1..NumRoundUsers : AllFree /\ JoinGroup(u)
    \/ TmdbOutage

SpecCatalog == Init /\ [][NextCatalog]_vars

\* Swipes on the contested movies, one request at a time, some of which fail
\* between their match branch and their commit, with a client in the match room.
NextAbort ==
    \/ \E c \in SoloConns, u \in 1..NumRoundUsers :
          NextConn(c) /\ ConnOpen(c, "match", <<u, "auth">>)
    \/ \E c \in Conns : ConnAuthenticate(c)
    \/ \E c \in Conns : ConnVerify(c)
    \/ \E c \in Conns : ConnGroupAdd(c)
    \/ \E c \in Conns : ConnAccept(c)
    \/ \E c \in Conns : ConnDisconnect(c)
    \/ \E c \in Conns : ConnDispatch(c)
    \/ \E p \in Workers, u \in 1..NumRoundUsers, m \in Contested, a \in Actions :
          /\ AllFree /\ NextWorker(p) /\ IsMember(u)
          /\ Budget /\ SwipeStart(p, u, m, a)
    \/ \E p \in Workers : SwipeStep(p)
    \/ \E p \in Workers : SwipeAbort(p)
    \/ \E u \in 1..NumRoundUsers : AllFree /\ JoinGroup(u)

SpecAbort == Init /\ [][NextAbort]_vars

\* Whole rounds of two members, one request at a time, while the channel layer is
\* out of reach of the views: every group_send of a swipe raises.
NextHubDown ==
    \/ \E c \in SoloConns, u \in 1..NumRoundUsers :
          NextConn(c) /\ ConnOpen(c, "match", <<u, "auth">>)
    \/ \E c \in Conns : ConnAuthenticate(c)
    \/ \E c \in Conns : ConnVerify(c)
    \/ \E c \in Conns : ConnGroupAdd(c)
    \/ \E c \in Conns : ConnAccept(c)
    \/ \E c \in Conns : ConnDisconnect(c)
    \/ \E p \in Workers, u \in 1..NumRoundUsers, m \in Movies, a \in Actions :
          /\ AllFree /\ NextWorker(p) /\ IsMember(u) /\ RoundInput(u, m, a)
          /\ SwipeStart(p, u, m, a) /\ UNCHANGED nreq
    \/ \E p \in Workers : \/ SwipeAuth(p)
                           \/ SwipeRead(p)
                           \/ SwipeAlready(p)
                           \/ SwipeUpdate(p)
                           \/ SwipeCreate(p)
                           \/ SwipeCountMembers(p)
                           \/ SwipeCountLikes(p)
                           \/ SwipeGetOrCreate(p)
                           \/ SwipeDetails(p)
                           \/ SwipePublishFails(p)
                           \/ SwipeInvalidate(p)
                           \/ SwipeCommit(p)
                           \/ (~CheckAllMembersFinished.all_finished /\ SwipeCompletion(p))
                           \/ SwipeCompletionFails(p)
    \/ \E u \in 1..NumRoundUsers : AllFree /\ JoinGroup(u)

SpecHubDown == Init /\ [][NextHubDown]_vars

\* Chat connections of the two members of the second group, who type and chat.
NextTyping ==
    \/ \E c \in Conns, u \in OtherMembers :
          NextConn(c) /\ ConnOpenOther(c, "chat", <<u, "auth">>)
    \/ \E c \in Conns : ConnStep(c)
    \/ \E c \in Conns : ConnReceive(c, "typing")

SpecTyping == Init /\ [][NextTyping]_vars

\* Swipes and deck requests on the COMMUNITY group, one request at a time, with
\* clients connecting to the group's match room.
NextCommunity ==
    \/ \E u \in Users, m \in CommunityMovies \cup {NoMovie}, a \in Actions :
          CommunitySwipe(u, m, a)
    \/ \E u \in Users, limit \in 1..MaxLimit : CommunityDeck(u, limit)
    \/ CommunityDeckExpire
    \/ \E c \in SoloConns, u \in CommunityMembers :
          NextConn(c) /\ ConnOpenCommunity(c, <<u, "auth">>)
    \/ \E c \in SoloConns : \/ ConnAuthenticate(c)
                             \/ ConnVerify(c)
                             \/ ConnGroupAdd(c)
                             \/ ConnAccept(c)

SpecCommunity == Init /\ [][NextCommunity]_vars

\* Chat connections that are accepted or refused, chat, and are closed at any
\* moment, any number of times.
NextClose ==
    \/ \E c \in Conns, h \in Handshakes : NextConn(c) /\ ConnOpen(c, "chat", h)
    \/ \E c \in Conns : \/ ConnAuthenticate(c)
                         \/ ConnVerify(c)
                         \/ ConnGroupAdd(c)
                         \/ ConnAccept(c)
                         \/ ConnDispatch(c)
                         \/ ChatSend(c)
                         \/ ConnClose(c)

SpecClose == Init /\ [][NextClose]_vars

\* Chat connections of the creator: messages that are stored and messages whose
\* row cannot be stored.
NextChat ==
    \/ \E c \in Conns : NextConn(c) /\ ConnOpen(c, "chat", <<Creator, "auth">>)
    \/ \E c \in Conns : ConnStep(c)
    \/ \E c \in Conns : ChatSendUnsaved(c)

SpecChat == Init /\ [][NextChat]_vars

\* Connections to the chat and match rooms of two groups: their clients chat and
\* type, the creator likes the contested movie of the first group, and the second
\* group's swipes publish to its match room.
NextRooms ==
    \/ \E c \in Conns, k \in RoomKinds, u \in 1..NumRoundUsers :
          NextConn(c) /\ ConnOpen(c, k, <<u, "auth">>)
    \/ \E c \in Conns, k \in RoomKinds, u \in 1..NumRoundUsers :
          NextConn(c) /\ ConnOpenOther(c, k, <<u, "auth">>)
    \/ \E c \in Conns : ConnStep(c)
    \/ \E c \in Conns : ConnReceive(c, "typing")
    \/ \E p \in Workers, m \in Contested :
          /\ AllFree /\ NextWorker(p) /\ swipe[<<Creator, m>>] = NONE
          /\ \A c \in room["match"] : Quota(c)
          /\ SwipeStart(p, Creator, m, LIKE) /\ UNCHANGED nreq
    \/ \E p \in Workers : SwipeAuth(p)
    \/ \E p \in Workers : SwipeRead(p)
    \/ \E p \in Workers : SwipeCreate(p)
    \/ \E p \in Workers : SwipeCountMembers(p)
    \/ \E p \in Workers : SwipeCountLikes(p)
    \/ \E p \in Workers : SwipeGetOrCreate(p)
    \/ \E p \in Workers : SwipeDetails(p)
    \/ \E p \in Workers : SwipePublish(p)
    \/ \E p \in Workers : SwipeInvalidate(p)
    \/ \E p \in Workers : SwipeCommit(p)
    \/ \E p \in Workers : SwipeCompletion(p)
    \/ \E t \in {"match_found", "all_members_finished"} : OtherGroupPublish(t)

SpecRooms == Init /\ [][NextRooms]_vars

\* request at a time.
NextConnections ==
    \/ \E c \in SoloConns, k \in RoomKinds, h \in Handshakes :
          NextConn(c) /\ ConnOpen(c, k, h)
    \/ \E c \in Conns : ConnStep(c)
    \/ \E p \in Workers, m \in Contested, a \in Actions :
          AllFree /\ NextWorker(p) /\ SwipeStart(p, Creator, m, a) /\ UNCHANGED nreq
    \/ \E p \in Workers : SwipeStep(p)
    \/ \E u \in Users : JoinGroup(u)
    \/ \E u \in Users : AdminDeactivate(u)

SpecConn == Init /\ [][NextConnections]_vars

\* Match and chat connections while the creator swipes, one request at a time.
\* A consumer with a queued event handles it, and a request handler that has
\* started runs on: both are tasks of a running server.
NextLive ==
    \/ \E c \in SoloConns, k \in RoomKinds, h \in Handshakes :
          NextConn(c) /\ ConnOpen(c, k, h)
    \/ \E c \in Conns : ConnStep(c)
    \/ \E p \in Workers, m \in Contested, a \in Actions :
          AllFree /\ NextWorker(p) /\ SwipeStart(p, Creator, m, a) /\ UNCHANGED nreq
    \/ \E p \in Workers : SwipeStep(p)

SpecLive ==
    /\ Init /\ [][NextLive]_vars
    /\ WF_vars(\E c \in Conns : ConnDispatch(c))
    /\ WF_vars(\E p \in Workers : SwipeStep(p))

\* The frames of a connection: its client sends frames of every type while the
\* creator swipes through a round, one request at a time.
NextFrames ==
    \/ \E c \in SoloConns, k \in RoomKinds, h \in Handshakes :
          NextConn(c) /\ ConnOpen(c, k, h)
    \/ \E c \in Conns : ConnStep(c)
    \/ \E c \in Conns, t \in InboundTypes : ConnReceive(c, t)
    \/ \E p \in Workers, m \in Movies, a \in Actions :
          /\ AllFree /\ NextWorker(p) /\ RoundInput(Creator, m, a)
          /\ pubFinished < MaxFinishedEvents
          /\ SwipeStart(p, Creator, m, a) /\ UNCHANGED nreq
    \/ \E p \in Workers : SwipeStep(p)

SpecFrames == Init /\ [][NextFrames]_vars

\* Two connections of the chat and match rooms, opened by the creator or by a user
\* who is not a member, and the text frames their clients send.
NextText ==
    \/ \E c \in Conns, k \in RoomKinds, u \in 1..NumRoundUsers :
          NextConn(c) /\ ConnOpen(c, k, <<u, "auth">>)
    \/ \E c \in Conns : ConnStep(c)
    \/ \E c \in Conns, f \in TextFrames : ConnReceiveText(c, f)

SpecText == Init /\ [][NextText]_vars

\* Create / join requests are handed to the lowest-numbered free worker.
NextGroupWorker(p) == GroupFree(p) /\ \A q \in Workers : q < p => ~GroupFree(q)

\* Sessions are created and joined concurrently.
NextGroups ==
    \/ \E p \in Workers, u \in GroupUsers : NextGroupWorker(p) /\ CreateGroupStart(p, u)
    \/ \E p \in Workers, u \in GroupUsers : NextGroupWorker(p) /\ CommunityStart(p, u)
    \/ \E p \in Workers, u \in GroupUsers, code \in Codes :
          NextGroupWorker(p) /\ JoinGroupStart(p, u, code)
    \/ \E p \in Workers : GenerateUniqueCode(p)
    \/ \E p \in Workers : InsertSession(p)
    \/ \E p \in Workers : CommunityJoin(p)
    \/ \E p \in Workers : JoinInsert(p)

SpecGroups == Init /\ [][NextGroups]_vars

\* The same requests with the joins of a community and with members whose rows the
\* admin site deactivates.
NextMembers ==
    \/ \E p \in Workers, u \in GroupUsers : NextGroupWorker(p) /\ CreateGroupStart(p, u)
    \/ \E p \in Workers, u \in GroupUsers : NextGroupWorker(p) /\ CommunityStart(p, u)
    \/ \E p \in Workers, u \in GroupUsers, code \in Codes :
          NextGroupWorker(p) /\ JoinGroupStart(p, u, code)
    \/ \E p \in Workers, u \in GroupUsers, g \in session :
          NextGroupWorker(p) /\ JoinCommunity(p, u, g)
    \/ \E p \in Workers : GroupStep(p)
    \/ \E r \in gmember : AdminDeactivateMember(r)

SpecMembers == Init /\ [][NextMembers]_vars


\* ------------------------------------------------------------------ claims
\* Worker p takes a step.
Moves(p) == proc'[p].pc # proc[p].pc

\* C1: when every active member of the group has submitted a LIKE for the same
\* movie in concurrently running calls and all calls have finished, exactly one
\* match_found event has been published and the GroupMatch row of the movie exists.
C1_ExactlyOneMatch ==
    \A m \in Contested :
        (AllFree /\ ActiveMembers # {} /\ \A u \in ActiveMembers : swipe[<<u, m>>] = LIKE)
            => (m \in match /\ pubMatch[m] = 1)

C3_MatchMeansAllActiveLike ==
    [][\A p \in Workers :
          (proc[p].pc = "countLikes" /\ Moves(p) /\ proc'[p].isMatch)
              => /\ ActiveMembers # {}
                 /\ \A u \in ActiveMembers : Visible(p, u, proc[p].movie) = LIKE]_vars

\* C4: within one round the all_members_finished event is published exactly once:
\* never more than once, and once the round is complete and every request has
\* returned it has been published.
C4_FinishedExactlyOnce ==
    /\ pubFinished <= 1
    /\ (AllFree /\ CheckAllMembersFinished.all_finished) => pubFinished = 1

\* C5: while the set of active members stays the same and no clearSwipes runs, the
\* finished_members value of the completion check never decreases and all_finished,
\* once true, stays true.
C5_FinishedMonotone ==
    [][(member' = member /\ round' = round)
          => /\ FinishedMembers' >= FinishedMembers
             /\ CheckAllMembersFinished.all_finished
                   => CheckAllMembersFinished'.all_finished]_vars

\* A member of a two-member group changed a swipe after the round was complete,
\* having swiped more movies than the quota.
C5_Witness ==
    /\ resp.kind = "swipe" /\ resp.msg = "updated"
    /\ Cardinality(ActiveMembers) = 2
    /\ CheckAllMembersFinished.all_finished
    /\ SwipeCount(resp.user) > MOVIES_PER_ROUND

\* C6: when a deck request of the PRIVATE group returns, none of the movie ids it
\* returns has a committed GroupSwipe row of any user in the group.
C6_DeckExcludesSwiped ==
    [][\A p \in Workers :
          (proc[p].kind = "deck" /\ Moves(p) /\ proc'[p].pc = "idle"
           /\ resp'.status = HTTP_200_OK)
              => \A i \in 1..Len(resp'.deck) : resp'.deck[i] \notin SwipedIds']_vars

\* C7: a swipe by a user who has no active GroupMember row is answered 403 and
\* changes no row, not the deck cache, and publishes nothing.
C7_NonMemberRejected ==
    [][\A p \in Workers :
          (/\ proc[p].kind = "swipe" /\ proc[p].pc = "auth" /\ Moves(p)
           /\ member[proc[p].user] # "ACTIVE")
              => /\ resp'.status = HTTP_403_FORBIDDEN
                 /\ proc'[p] = IdleProc
                 /\ UNCHANGED <<member, swipe, match, deckCache, pubMatch, pubFinished>>]_vars

\* A member whose row is inactive was turned away.
C7_Witness ==
    /\ resp.kind = "swipe" /\ resp.status = HTTP_403_FORBIDDEN
    /\ member[resp.user] = "INACTIVE"

\* C10: a swipe that finds its own row already holding the same action changes
\* nothing: the row keeps its action, no GroupMatch row is added and nothing is
\* published.
C10_SameActionNoOp ==
    [][\A p \in Workers :
          (/\ proc[p].kind = "swipe" /\ proc[p].pc \notin {"auth", "read"} /\ Moves(p)
           /\ proc[p].existing = proc[p].action)
              => UNCHANGED <<member, swipe, match, deckCache, pubMatch, pubFinished>>]_vars

\* A second LIKE on a movie that already has its GroupMatch row returned early.
C10_Witness ==
    /\ resp.kind = "swipe" /\ resp.msg = "already" /\ resp.status = HTTP_200_OK
    /\ \E m \in match : pubMatch[m] = 1 /\ swipe[<<resp.user, m>>] = LIKE

\* C8: in both room kinds, a logged-in user who is not an active member of the
\* group when the membership check runs never gets past it: the connection is
\* closed with code 4003, is never accepted, is not in the room's subscriber set
\* and receives no event of the room.
C8_NonMemberNeverSubscribed ==
    \A c \in Conns :
        (conn[c].checked /\ ~conn[c].activeAtCheck)
            => /\ conn[c].state = "closed" /\ conn[c].code = CLOSE_NOT_MEMBER
               /\ ~conn[c].accepted /\ ~conn[c].got
               /\ \A k \in RoomKinds : c \notin room[k]

\* C9: a handshake without a logged-in user goes from connecting straight to
\* closed with code 4001, which differs from the non-member code; the membership
\* check is not run, no room's subscriber set changes and the connection is never
\* accepted.
C9_UnauthenticatedClosed ==
    [][\A c \in Conns :
          (conn[c].state = "connecting" /\ conn'[c] # conn[c] /\ conn[c].auth # "auth")
              => /\ conn'[c].state = "closed"
                 /\ conn'[c].code = CLOSE_UNAUTHENTICATED
                 /\ CLOSE_UNAUTHENTICATED # CLOSE_NOT_MEMBER
                 /\ ~conn'[c].checked /\ ~conn'[c].accepted /\ ~conn'[c].got
                 /\ room' = room]_vars

\* The anonymous user was turned away from the match room.
C9_Witness ==
    \E c \in Conns :
        /\ conn[c].kind = "match" /\ conn[c].auth = "anon"
        /\ conn[c].state = "closed" /\ conn[c].code = CLOSE_UNAUTHENTICATED
        /\ ~conn[c].checked /\ c \notin room["match"]

\* C11: a GroupMatch row, once committed, is there in every later state with the
\* same matched_at: no swipe, change of a LIKE to a DISLIKE, clearSwipes or join
\* deletes or rewrites it.
C11_MatchPermanent ==
    [][\A m \in Movies :
          m \in match => (m \in match' /\ matchedAt'[m] = matchedAt[m]
                          /\ matchedAt[m] > 0)]_vars

\* After the match a new round was started, a second member joined and a member
\* disliked the matched movie; the row is still there with its first timestamp.
C11_Witness ==
    \E m \in match :
        /\ round = 1 /\ Cardinality(ActiveMembers) >= 2
        /\ \E u \in ActiveMembers : swipe[<<u, m>>] = DISLIKE
        /\ matchedAt[m] = 2 /\ nreq > 1

\* C12: the GroupSwipe table holds one row per (user, movie), a committed swipe
\* leaves its action in that row, and no swipe of a member, first or repeated,
\* alone or concurrent with another, is turned down as a duplicate.
C12_UpsertNeverRejected ==
    [][\A p \in Workers :
          /\ (proc[p].pc = "upsert" /\ Moves(p))
                => ~(proc'[p].pc = "idle" /\ resp'.status = HTTP_500_INTERNAL_SERVER_ERROR)
          /\ (proc[p].pc = "commit" /\ Moves(p) /\ proc[p].wrote)
                => swipe'[<<proc[p].user, proc[p].movie>>] = proc[p].action]_vars

\* A match_found event for movie m is queued for connection c, which is subscribed
\* to the match room.
MatchQueued(c, m) ==
    /\ conn[c].state = "subscribed" /\ conn[c].kind = "match"
    /\ \E i \in 1..Len(inbox[c]) : inbox[c][i].type = "match_found" /\ inbox[c][i].movie = m

\* The number of match_found frames for movie m sent on connection c.
MatchFrames(c, m) ==
    CopiesIn(MatchFoundFrame(m, "details"), out[c]) + CopiesIn(MatchFoundFrame(m, NoInfo), out[c])

\* The broadcast of a new match reaches the queue of every connection subscribed
\* to the match room, and no connection is sent two match_found frames for a movie.
MatchFanOut ==
    /\ [][\A p \in Workers :
             (proc[p].pc = "publish" /\ Moves(p))
                => \A c \in Conns :
                      (conn[c].state = "subscribed" /\ conn[c].kind = "match")
                         => MatchQueued(c, proc[p].movie)']_vars
    /\ [](\A c \in Conns, m \in Movies : MatchFrames(c, m) <= 1)

MatchFrameTypes ==
    {"connection_established", "pong", "match_found", "all_members_finished", "error"}

\* C14: every frame sent on a match-room connection has a type field with one of
\* the five values of the wire protocol, and the frame of a round-completion event
\* has type all_members_finished.
C14_MatchFramesTyped ==
    \A c \in Conns :
        conn[c].kind = "match"
            => \A f \in BagToSet(out[c]) :
                  /\ f.type \in MatchFrameTypes
                  /\ f.payload = "all_members_finished" => f.type = "all_members_finished"

\* A client frame type that the room does not recognize.
Unrecognized(kind, t) ==
    \/ t = "bogus"
    \/ kind = "chat" /\ t = "ping"
    \/ kind = "match" /\ t \in {"chat_message", "typing"}

\* C20: a frame of an unrecognized type from a subscribed connection is answered
\* with exactly one error frame on that connection: nothing is queued for any
\* connection of the room, no chat message is stored, no row changes and the
\* connection stays subscribed.
C20_UnknownTypeErrorOnly ==
    [][\A c \in Conns, t \in InboundTypes :
          (conn[c].state = "subscribed" /\ Unrecognized(conn[c].kind, t)
           /\ ConnReceive(c, t))
              => /\ out' = [out EXCEPT ![c] = @ (+) SetToBag({Frame("error", "error", NoMovie)})]
                 /\ inbox' = inbox /\ chatLog' = chatLog
                 /\ conn' = conn /\ room' = room
                 /\ UNCHANGED <<member, swipe, match, matchedAt>>]_vars

\* A chat connection was sent an error frame and no message was stored.
C20_Witness ==
    \E c \in Conns :
        /\ conn[c].state = "subscribed" /\ conn[c].kind = "chat"
        /\ CopiesIn(Frame("error", "error", NoMovie), out[c]) >= 1
        /\ chatLog = 0 /\ inbox[c] = <<>>


\* C15: every stored GroupSession has at least one GroupMember row, and its
\* creator has an active GroupMember row of role CREATOR in it: the session and
\* the creator's enrolment are stored together or not at all.
C15_CreatorEnrolled ==
    \A s \in session :
        \E r \in gmember :
            /\ r.group_session = s.id /\ r.user = s.creator
            /\ r.role = CREATOR /\ r.is_active


\* A join_group request of user u for this code arrives in the step: it has either
\* returned already or is held by a worker.
JoinArrives(u, code) ==
    /\ greq' = greq + 1
    /\ \/ /\ gresp'.req = greq' /\ gresp'.kind = "join"
          /\ gresp'.user = u /\ gresp'.code = code
       \/ \E p \in Workers :
             /\ gproc'[p].req = greq' /\ gproc'[p].kind = "join"
             /\ gproc'[p].user = u /\ gproc'[p].code = code

\* User u holds an active GroupMember row in the session with this code.
ActiveMemberOf(u, code) ==
    \E s \in session, r \in gmember :
        /\ s.group_code = code
        /\ r.group_session = s.id /\ r.user = u /\ r.is_active

\* C16: a joinGroup call by a user who is already an active member of the group
\* succeeds at once and leaves every stored row as it was.
C16_ActiveJoinIsNoOp ==
    [][\A u \in GroupUsers, code \in Codes :
          JoinArrives(u, code) /\ ActiveMemberOf(u, code)
              => /\ gresp'.req = greq' /\ gresp'.status = HTTP_200_OK
                 /\ UNCHANGED <<session, gmember, dbVars>>]_vars

\* An active member who joined by code has called joinGroup again and got the
\* answer of an existing member.
C16_Witness ==
    /\ gresp.kind = "join" /\ gresp.status = HTTP_200_OK /\ gresp.msg = "alreadyMember"
    /\ \E s \in session, r \in gmember :
          /\ s.group_code = gresp.code /\ r.group_session = s.id
          /\ r.user = gresp.user /\ r.role = MEMBER /\ r.is_active


\* No two GroupMember rows have the same group and user.
UniqueMembership ==
    \A r1, r2 \in gmember :
        r1.group_session = r2.group_session /\ r1.user = r2.user => r1 = r2

\* A join_group or join_community request of user u for this code returns success
\* in the step.
JoinReturns(u, code) ==
    /\ gresp'.req # gresp.req
    /\ gresp'.kind \in {"join", "joinCommunity"}
    /\ gresp'.user = u /\ gresp'.code = code
    /\ gresp'.status \in {HTTP_200_OK, HTTP_201_CREATED}

UniqueCodes ==
    \A s1, s2 \in session : s1.group_code = s2.group_code => s1 = s2

\* C18: no two GroupSession rows ever share a group_code, also when two sessions
\* are created concurrently with the same candidate code; and a stored session
\* keeps the code it was created with.
C18_CodeUniqueAndFixed ==
    [][/\ UniqueCodes'
       /\ \A s \in session :
             \E t \in session' : t.id = s.id /\ t.group_code = s.group_code]_vars

\* Two create_group requests drew the same candidate code: one of them stored its
\* session under that code and the other was turned down by the database.
C18_Witness ==
    /\ gresp.kind = "create" /\ gresp.status = HTTP_500_INTERNAL_SERVER_ERROR
    /\ \E s \in session : s.group_code = gresp.code /\ s.creator # gresp.user


Malformed == {f \in TextFrames : f.json = "malformed"}

\* C21: a text frame that is not valid JSON is answered with exactly one error
\* frame saying so on the sender's connection; no other connection is sent or
\* queued anything, nothing is stored, and the connection stays subscribed to its
\* room as it was, so that its next frame is handled as usual.
C21_InvalidJsonErrorOnly ==
    [][\A c \in Conns, f \in Malformed :
          (conn[c].state = "subscribed" /\ ConnReceiveText(c, f))
              => /\ out' = [out EXCEPT ![c] = @ (+)
                               SetToBag({Frame("error", "Invalid JSON format", NoMovie)})]
                 /\ inbox' = inbox /\ chatLog' = chatLog
                 /\ conn' = conn /\ room' = room
                 /\ UNCHANGED <<member, swipe, match, matchedAt>>]_vars

\* A connection was told of invalid JSON, is still subscribed next to a second
\* subscriber, and has had a later ping answered or chat message stored.
C21_Witness ==
    \E c, d \in Conns :
        /\ c # d /\ conn[c].state = "subscribed" /\ conn[d].state = "subscribed"
        /\ conn[d].kind = conn[c].kind
        /\ CopiesIn(Frame("error", "Invalid JSON format", NoMovie), out[c]) = 1
        /\ CopiesIn(Frame("error", "Invalid JSON format", NoMovie), out[d]) = 0
        /\ \/ CopiesIn(Frame("pong", "pong", NoMovie), out[c]) = 1
           \/ chatLog = 1


\* C22: the match check of a group it finds without active members says no match,
\* whatever LIKE rows are stored: the swipe goes on without a GroupMatch insert
\* and without a match_found event.
C22_NoMembersNoMatch ==
    [][\A p \in Workers :
          (proc[p].pc = "countLikes" /\ proc[p].nActive = 0 /\ proc'[p] # proc[p])
              => /\ \A likes \in 0..NumUsers : ~CheckGroupMatch(0, likes)
                 /\ ~proc'[p].isMatch /\ proc'[p].pc = "invalidate"
                 /\ match' = match /\ pubMatch' = pubMatch]_vars

\* The creator's LIKE is stored in a group whose only member row was deactivated
\* while the request ran: the swipe was answered without a match.
C22_Witness ==
    /\ ActiveMembers = {} /\ \A u \in Users \ {Creator} : member[u] = NONE
    /\ \E m \in Movies : swipe[<<Creator, m>>] = LIKE
    /\ match = {} /\ \A m \in Movies : pubMatch[m] = 0
    /\ resp.status = HTTP_200_OK /\ ~resp.isMatch


\* The chat_message frame a chat consumer sends for an event of its room.
ChatFrames(c) ==
    BagCardinality([f \in {g \in DOMAIN out[c] : g.type = "chat_message"} |-> out[c][f]])

\* C23: a connection that has disconnected is in no room's subscriber set, has
\* no event queued and is sent no further frame; an event published to a room is
\* queued for every connection that is still in the room's set.
C23_ClosedGetsNothing ==
    [][/\ \A c \in Conns :
             conn'[c].state = "closed"
                 => /\ \A k \in RoomKinds : c \notin room'[k]
                    /\ inbox'[c] = <<>>
                    /\ conn[c].state = "closed" => out'[c] = out[c]
       /\ \A k \in RoomKinds : \A c \in room[k], d \in room[k] :
             (Len(inbox'[c]) > Len(inbox[c]) /\ conn'[d].state # "closed")
                 => /\ Len(inbox'[d]) = Len(inbox[d]) + 1
                    /\ inbox'[d][Len(inbox'[d])] = inbox'[c][Len(inbox'[c])]]_vars

\* A chat connection received the first message and disconnected; the second
\* message reached only the connection that stayed.
C23_Witness ==
    \E c, d \in Conns :
        /\ conn[c].state = "closed" /\ conn[c].accepted /\ conn[c].kind = "chat"
        /\ conn[d].state = "subscribed" /\ conn[d].kind = "chat"
        /\ chatLog = 2
        /\ ChatFrames(c) = 1 /\ ChatFrames(d) = 2


C25_DislikeCountsButNeverMatches ==
    /\ [][\A p \in Workers :
             (proc[p].kind = "swipe" /\ proc[p].action = DISLIKE /\ Moves(p))
                => /\ match' = match
                   /\ pubMatch' = pubMatch
                   /\ \A c \in Conns :
                         \A i \in 1..Len(inbox'[c]) :
                            inbox'[c][i].type = "match_found"
                               => i <= Len(inbox[c]) /\ inbox[c][i] = inbox'[c][i]]_vars
    /\ [][\A p \in Workers :
             (/\ proc[p].pc = "completion" /\ proc[p].action = DISLIKE /\ Moves(p)
              /\ swipe[<<proc[p].user, proc[p].movie>>] = DISLIKE
              /\ \E v \in Users : member[v] = "ACTIVE"
              /\ \A v \in Users :
                    member[v] = "ACTIVE"
                       => Cardinality({m \in Movies : swipe[<<v, m>>] # NONE})
                             >= MOVIES_PER_ROUND)
                => /\ pubFinished' = pubFinished + 1
                   /\ \A c \in room["match"] :
                         /\ Len(inbox'[c]) = Len(inbox[c]) + 1
                         /\ inbox'[c][Len(inbox'[c])].type = "all_members_finished"]_vars

\* A round that two active members finished with DISLIKE rows alone: the
\* completion event went out and no GroupMatch row exists.
C25_Witness ==
    /\ pubFinished >= 1
    /\ match = {}
    /\ \A m \in Movies : pubMatch[m] = 0
    /\ Cardinality({v \in Users : member[v] = "ACTIVE"}) = 2
    /\ \A v \in Users :
          member[v] = "ACTIVE"
             => /\ Cardinality({m \in Movies : swipe[<<v, m>>] = DISLIKE}) = MOVIES_PER_ROUND
                /\ \A m \in Movies : swipe[<<v, m>>] # LIKE
    /\ resp.kind = "swipe" /\ resp.status = HTTP_201_CREATED


\* The TMDB API has failed on every call so far: it is down and nothing of it is
\* cached.
CatalogDown == ~tmdbUp /\ detailsCache = {}

\* C26: while the Catalog Gateway fails on every call, no swipe and no deck request
\* answers 500; a LIKE whose commit leaves every active member with a LIKE row of
\* the movie stores its row and, unless the GroupMatch row exists already, creates
\* it, having published match_found with empty movie metadata to the match room;
\* and a deck request returns a list, the empty one when nothing is cached.
C26_CatalogFailureDegrades ==
    /\ [][\A p \in Workers :
             (CatalogDown /\ Moves(p) /\ proc'[p].pc = "idle")
                => resp'.status # HTTP_500_INTERNAL_SERVER_ERROR]_vars
    /\ [][\A p \in Workers :
             (CatalogDown /\ proc[p].pc = "deckGet" /\ Moves(p) /\ deckCache = <<>>)
                => proc'[p].pc = "deckSet" /\ proc'[p].deck = <<>>]_vars
    /\ [][\A p \in Workers :
             (/\ CatalogDown /\ proc[p].pc = "commit" /\ Moves(p)
              /\ proc[p].action = LIKE /\ proc[p].wrote
              /\ \A v \in Users \ {proc[p].user} :
                    member[v] = "ACTIVE" => swipe[<<v, proc[p].movie>>] = LIKE)
                => /\ swipe'[<<proc[p].user, proc[p].movie>>] = LIKE
                   /\ proc[p].movie \in match'
                   /\ proc[p].movie \notin match
                         => /\ pubMatch[proc[p].movie] >= 1
                            /\ proc[p].info = NoInfo]_vars
    /\ [][\A p \in Workers :
             (CatalogDown /\ proc[p].pc = "publish" /\ Moves(p))
                => /\ pubMatch'[proc[p].movie] = pubMatch[proc[p].movie] + 1
                   /\ \A c \in room["match"] :
                         inbox'[c] = Append(inbox[c], MatchEvent(proc[p].movie, NoInfo))]_vars

\* With the API down from the start, a LIKE completed the consensus of two members:
\* the row and the match exist, and a client of the match room holds the
\* match_found frame without movie metadata.
C26_Witness ==
    /\ CatalogDown
    /\ Cardinality({v \in Users : member[v] = "ACTIVE"}) = 2
    /\ \E m \in Contested :
          /\ m \in match
          /\ \A v \in Users : member[v] = "ACTIVE" => swipe[<<v, m>>] = LIKE
          /\ \E c \in Conns : CopiesIn(MatchFoundFrame(m, NoInfo), out[c]) = 1
    /\ resp.kind = "deck" /\ resp.status = HTTP_200_OK /\ resp.deck = <<>>


\* A chat_message frame of a client, sent with its type or without one, whose
\* message is missing, empty or made of spaces only.
EmptyChatFrame(f) ==
    /\ f.json = "object"
    /\ f.type \in {"chat_message", "absent"}
    /\ \/ f.key = "absent"
       \/ f.key = "string" /\ \A i \in 1..Len(f.message) : f.message[i] = " "

\* C27: a chat_message frame whose message is missing, empty or whitespace only
\* gets one error frame, sent to its sender alone; no GroupChatMessage row is
\* stored, nothing is published to the room, and the connection stays subscribed.
C27_EmptyChatRejected ==
    [][\A c \in Conns, f \in TextFrames :
          (ConnReceiveText(c, f) /\ conn[c].kind = "chat" /\ EmptyChatFrame(f))
             => /\ out' = [out EXCEPT ![c] = @ (+)
                              SetToBag({Frame("error", "Message content cannot be empty",
                                              NoMovie)})]
                /\ chatLog' = chatLog
                /\ inbox' = inbox
                /\ room' = room
                /\ conn' = conn /\ conn[c].state = "subscribed"]_vars

\* A connection that was sent the error frame for an empty message has posted a
\* message that is stored; the other connection of the room was sent no error.
C27_Witness ==
    \E c \in Conns, d \in Conns :
        /\ c # d
        /\ conn[c].kind = "chat" /\ conn[c].state = "subscribed"
        /\ conn[d].kind = "chat" /\ conn[d].state = "subscribed"
        /\ CopiesIn(Frame("error", "Message content cannot be empty", NoMovie), out[c]) = 1
        /\ CopiesIn(Frame("error", "Message content cannot be empty", NoMovie), out[d]) = 0
        /\ chatLog = 1


\* A JSON object without a type key.
Untyped(f) == f.json = "object" /\ f.type = "absent"

\* C28: a JSON frame without a type is handled as the primary kind of its room.
\* In the chat room it is a chat_message: with a message that is not blank it is
\* stored and sent to every connection of the room, with a blank one it gets the
\* empty-content error.  In the match room it is a ping, answered by one pong.
C28_MissingTypeDefaults ==
    [][\A c \in Conns, f \in TextFrames :
          (ConnReceiveText(c, f) /\ Untyped(f) /\ f.key # "null")
             => IF conn[c].kind = "chat"
                THEN IF f.key = "string" /\ \E i \in 1..Len(f.message) : f.message[i] # " "
                     THEN /\ chatLog' = chatLog + 1
                          /\ \A d \in room["chat"] :
                                /\ Len(inbox'[d]) = Len(inbox[d]) + 1
                                /\ inbox'[d][Len(inbox'[d])].type = "chat_message"
                          /\ out' = out
                     ELSE /\ chatLog' = chatLog
                          /\ inbox' = inbox
                          /\ out' = [out EXCEPT ![c] = @ (+)
                                SetToBag({Frame("error", "Message content cannot be empty",
                                                NoMovie)})]
                ELSE /\ out' = [out EXCEPT ![c] = @ (+)
                                   SetToBag({Frame("pong", "pong", NoMovie)})]
                     /\ chatLog' = chatLog
                     /\ inbox' = inbox]_vars

\* The default handler of each room has run: the chat connection holds the chat
\* message it posted, the match connection one pong, and no error frame was sent.
C28_Witness ==
    \E c \in Conns, d \in Conns :
        /\ conn[c].kind = "chat" /\ conn[c].state = "subscribed"
        /\ conn[d].kind = "match" /\ conn[d].state = "subscribed"
        /\ chatLog = 1
        /\ CopiesIn(ChatMessageFrame(1), out[c]) = 1
        /\ CopiesIn(Frame("pong", "pong", NoMovie), out[d]) = 1
        /\ \A e \in Conns : \A m \in DOMAIN out[e] : m.type # "error"


\* C29: a match_found frame is delivered only for a GroupMatch row that gets
\* committed: once no request on the movie is in its transaction, a connection
\* holds a match_found frame of the movie only if the row exists, and no movie has
\* had two match_found events published.
C29_PublishedOnlyIfCommitted ==
    \A m \in Movies :
        /\ pubMatch[m] <= 1
        /\ (\A p \in Workers : proc[p].pc = "idle" \/ proc[p].movie # m)
              => \A c \in Conns :
                    (\E f \in DOMAIN out[c] : f.type = "match_found" /\ f.movie = m)
                       => m \in match

\* C30: no swipe request sends a request to the Catalog Gateway while its
\* transaction is open: a get_movie_details call that misses the cache is made by a
\* request outside its atomic block, holding no uncommitted row.
C30_NoCatalogCallInTransaction ==
    [][\A p \in Workers :
          (proc[p].kind = "swipe" /\ proc[p].pc = "details" /\ Moves(p)
           /\ proc[p].movie \notin detailsCache)
             => ~InTxn(p) /\ ~proc[p].wrote /\ ~proc[p].wmatch]_vars


\* The event types of the two kinds of room.
ChatTypes == {"chat_message", "typing_indicator"}
MatchTypes == {"match_found", "all_members_finished"}

\* C31: an event reaches only the connections of the room it was published to.  A
\* chat message or typing indicator is queued only for connections of the sender's
\* chat room, an event of a group's swipe only for connections of that group's
\* match room; so a match connection never holds a chat event or frame and a chat
\* connection never holds a match event or frame.
C31_EventsStayInTheirRoom ==
    /\ [][\A d \in Conns :
             (ChatSend(d) \/ ConnReceive(d, "typing"))
                => \A c \in Conns :
                      inbox'[c] # inbox[c]
                         => conn[c].room = conn[d].room /\ conn[c].kind = "chat"]_vars
    /\ [][(\E t \in MatchTypes : OtherGroupPublish(t))
             => \A c \in Conns : inbox'[c] # inbox[c] => conn[c].room = "match_other"]_vars
    /\ [][\A p \in Workers :
             (proc[p].pc \in {"publish", "completion"} /\ Moves(p))
                => \A c \in Conns : inbox'[c] # inbox[c] => conn[c].room = "match"]_vars
    /\ [](\A c \in Conns :
             LET held == {inbox[c][i].type : i \in 1..Len(inbox[c])}
                         \cup {f.payload : f \in DOMAIN out[c]} IN
             /\ conn[c].kind = "match" => held \cap ChatTypes = {}
             /\ conn[c].kind = "chat" => held \cap MatchTypes = {})

\* Both groups' match rooms have a subscriber and both groups published: each
\* connection holds the one frame of its own group and nothing else.
C31_Witness ==
    \E c, d \in Conns :
        /\ conn[c].room = "match" /\ conn[c].state = "subscribed"
        /\ conn[d].room = "match_other" /\ conn[d].state = "subscribed"
        /\ {f.payload : f \in DOMAIN out[c]} = {"connection_established", "match_found"}
        /\ {f.payload : f \in DOMAIN out[d]}
              = {"connection_established", "all_members_finished"}
        /\ inbox[c] = <<>> /\ inbox[d] = <<>>


\* C32: every chat_message frame a client holds carries the id of a stored
\* GroupChatMessage row, and a chat message is queued for every connection of the
\* sender's room, the sender's own included.
C32_ChatFrameHasStoredRow ==
    /\ [](\A c \in Conns : \A f \in DOMAIN out[c] :
             f.type = "chat_message"
                => f.message_id # NoMessage /\ f.message_id \in 1..chatLog)
    /\ [][\A d \in Conns :
             (ChatSend(d) \/ ChatSendUnsaved(d))
                => \A c \in room[conn[d].room] :
                      inbox'[c] = Append(inbox[c], inbox'[d][Len(inbox'[d])])]_vars

EstablishedFrame == Frame("connection_established", "connection_established", NoMovie)

\* C33: the first frame a connection's client receives is connection_established:
\* the step that gives a client its first frame gives it exactly that frame, and a
\* client that holds any frame holds it, once.
C33_EstablishedIsFirstFrame ==
    /\ [](\A c \in Conns : out[c] # EmptyBag => CopiesIn(EstablishedFrame, out[c]) = 1)
    /\ [][\A c \in Conns :
             out[c] = EmptyBag /\ out'[c] # EmptyBag
                => out'[c] = SetToBag({EstablishedFrame})]_vars

\* One connection is in its room's group with an event queued and nothing sent
\* yet, while another has been greeted and has then received an event's frame.
C33_Witness ==
    \E c, d \in Conns :
        /\ conn[c].state = "added" /\ inbox[c] # <<>> /\ out[c] = EmptyBag
        /\ conn[d].state = "subscribed" /\ conn[d].got
        /\ CopiesIn(EstablishedFrame, out[d]) = 1 /\ BagCardinality(out[d]) > 1

TypingFrame == Frame("typing_indicator", "typing_indicator", NoMovie)

\* C34: a typing frame from a connection of user U queues one typing_indicator
\* event for every connection of the sender's room and writes nothing (no chat
\* row, no frame, no database row); a connection that handles the event sends its
\* client one typing_indicator frame when its user is not U and nothing when it is.
C34_TypingReachesTheOthersOnly ==
    /\ [][\A d \in Conns :
             ConnReceive(d, "typing") /\ conn[d].kind = "chat"
                => /\ \A c \in Conns :
                        inbox'[c] = IF c \in room[conn[d].room]
                                    THEN Append(inbox[c],
                                                Event("typing_indicator", NoMovie,
                                                      conn[d].user))
                                    ELSE inbox[c]
                   /\ UNCHANGED <<chatLog, out, dbVars, groupVars>>]_vars
    /\ [][\A c \in Conns :
             ConnDispatch(c) /\ Head(inbox[c]).type = "typing_indicator"
                => out'[c] = IF Head(inbox[c]).user # conn[c].user
                             THEN out[c] (+) SetToBag({TypingFrame})
                             ELSE out[c]]_vars
    /\ [](\A c \in Conns :
             CopiesIn(TypingFrame, out[c]) > 0
                => \E d \in Conns : d # c /\ conn[d].user # conn[c].user
                                          /\ conn[d].room = conn[c].room)

\* A user's typing event has been handled by a connection of that user, which sent
\* nothing, and by a connection of the other member, whose client holds the frame.
C34_Witness ==
    \E c, d \in Conns :
        /\ conn[c].room = "chat_other" /\ conn[d].room = "chat_other"
        /\ conn[c].user # conn[d].user
        /\ conn[c].state = "subscribed" /\ conn[c].got
        /\ out[c] = SetToBag({EstablishedFrame})
        /\ conn[d].state = "subscribed" /\ CopiesIn(TypingFrame, out[d]) = 1
        /\ chatLog = 0

Subscribed(c) == conn[c].state # "none" /\ c \in room[conn[c].room]

\* C35: disconnect can run in any state between two handlers; on a connection that
\* is in no room it changes no room and no other connection, on a subscribed one it
\* removes that channel alone, and in either case the events queued for the other
\* connections stay; a message sent while connections close is queued for every
\* channel then in the room.
C35_DisconnectIsIdempotentAndSafe ==
    /\ [](\A c \in Conns : conn[c].state \in BetweenHandlers => ENABLED ConnClose(c))
    /\ [][\A c \in Conns :
             ConnClose(c)
                => /\ room' = IF Subscribed(c)
                              THEN [room EXCEPT ![conn[c].room] = @ \ {c}]
                              ELSE room
                   /\ \A d \in Conns \ {c} :
                         inbox'[d] = inbox[d] /\ conn'[d] = conn[d]
                   /\ out' = out /\ chatLog' = chatLog]_vars
    /\ [][\A d \in Conns :
             ChatSend(d)
                => \A c \in room[conn[d].room] :
                      inbox'[c] = Append(inbox[c], ChatEvent(conn[d].user, chatLog'))]_vars

\* One connection has been closed after two messages were sent to the room, and
\* the other has handled the first and still has the second one queued.
C35_Witness ==
    \E c, d \in Conns :
        /\ conn[c].state = "closed" /\ conn[c].accepted /\ ~Subscribed(c)
        /\ conn[d].state = "subscribed" /\ Subscribed(d)
        /\ Len(inbox[d]) = 1 /\ CopiesIn(ChatMessageFrame(1), out[d]) = 1
        /\ chatLog = 2

\* C36: when getDeck returns for the COMMUNITY group, from the cache or not, no
\* movie of the returned list has an Interaction row of an active member.
C36_CommunityDeckHasNoSwipedMovie ==
    [][\A u \in Users, limit \in 1..MaxLimit :
          CommunityDeck(u, limit) /\ resp'.status = HTTP_200_OK
             => \A i \in 1..Len(resp'.deck) : resp'.deck[i] \notin InteractedIds]_vars

C38_PublishFailureKeepsTheSwipe ==
    /\ [](/\ \A c \in Conns : inbox[c] = <<>>
          /\ pubFinished = 0 /\ \A m \in Movies : pubMatch[m] = 0)
    /\ [][\A p \in Workers :
             SwipePublishFails(p)
                => proc'[p] = [proc[p] EXCEPT !.pc = "invalidate"]]_vars
    /\ [][\A p \in Workers :
             proc[p].pc = "completion" /\ proc'[p].pc = "idle"
                => /\ resp'.status = proc[p].status
                   /\ resp'.status \in {HTTP_200_OK, HTTP_201_CREATED}
                   /\ resp'.isMatch = proc[p].isMatch
                   /\ swipe[<<proc[p].user, proc[p].movie>>] = proc[p].action
                   /\ proc[p].isMatch => proc[p].movie \in match]_vars

\* A LIKE that matched has been answered with success and is_match = true, its
\* row and the GroupMatch row are committed, everyone has finished, and the client
\* in the match room has been sent nothing but its greeting.
C38_Witness ==
    /\ resp.kind = "swipe" /\ resp.isMatch
    /\ resp.status \in {HTTP_200_OK, HTTP_201_CREATED}
    /\ swipe[<<resp.user, 1>>] = LIKE /\ 1 \in match
    /\ CheckAllMembersFinished.all_finished
    /\ \A p \in Workers : Free(p)
    /\ \E c \in room["match"] :
          conn[c].state = "subscribed" /\ out[c] = SetToBag({EstablishedFrame})

\* The last response is a non-empty deck.
DeckReturned == resp.kind = "deck" /\ resp.status = HTTP_200_OK /\ resp.deck # <<>>

====
